---- MODULE Spec2Model ----
(***************************************************************************)
(* State-machine model of the sec_company_lookup package: the process-wide *)
(* in-memory Entity Index (_memory_cache, _last_update), the on-disk cache *)
(* file and SQLite index it is rebuilt from, the single-identifier         *)
(* resolvers, the batch coordinators and the cache lifecycle.              *)
(*                                                                         *)
(* Strings are sequences of one-character strings, so that strip, upper,   *)
(* lower, split, join and the substring test are computed, not assumed.    *)
(***************************************************************************)
EXTENDS Integers, Sequences, FiniteSets, TLC

VARIABLES memory_cache, last_update, data_file, db, user_email, now, result, pc, lru_cache

vars == <<memory_cache, last_update, data_file, db, user_email, now, result, pc, lru_cache>>

-----------------------------------------------------------------------------
(* Bounds of the model *)

\* Wall-clock instants the model distinguishes: now ranges over 1..MaxTime.
MaxTime == 3
\* Hours that pass at one Tick.
HoursPerTick == 13
\* Longest batch input (number of raw identifiers).
MaxBatch == 2
\* Longest generated name query (characters) of the name-resolution check.
MaxQueryLen == 3
MaxTitleWords == 2

\* utils.CACHE_EXPIRY_HOURS
CACHE_EXPIRY_HOURS == 24

-----------------------------------------------------------------------------
(* Python str operations on character sequences *)

UpperChars == <<"A","B","C","D","E","F","G","H","I","J","K","L","M",
                "N","O","P","Q","R","S","T","U","V","W","X","Y","Z">>
LowerChars == <<"a","b","c","d","e","f","g","h","i","j","k","l","m",
                "n","o","p","q","r","s","t","u","v","w","x","y","z">>
DigitChars == <<"0","1","2","3","4","5","6","7","8","9">>

\* Characters in code-point order (SQLite's BINARY collation, ORDER BY ticker).
AsciiOrder == <<" ", "-", ".">> \o DigitChars \o UpperChars \o LowerChars

IndexOf(seq, c) == CHOOSE i \in 1..Len(seq) : seq[i] = c
Occurs(seq, c) == \E i \in 1..Len(seq) : seq[i] = c

LowerChar(c) == IF Occurs(UpperChars, c) THEN LowerChars[IndexOf(UpperChars, c)] ELSE c
UpperChar(c) == IF Occurs(LowerChars, c) THEN UpperChars[IndexOf(LowerChars, c)] ELSE c

\* str.lower(), str.upper()
Lower(s) == [i \in 1..Len(s) |-> LowerChar(s[i])]
Upper(s) == [i \in 1..Len(s) |-> UpperChar(s[i])]

SetMin(S) == CHOOSE x \in S : \A y \in S : x <= y
SetMax(S) == CHOOSE x \in S : \A y \in S : x >= y

\* str.strip(): leading and trailing whitespace removed.
Strip(s) ==
    LET keep == {i \in 1..Len(s) : s[i] # " "}
    IN IF keep = {} THEN <<>> ELSE SubSeq(s, SetMin(keep), SetMax(keep))

\* str.lstrip("0")
LStripZeros(s) ==
    LET keep == {i \in 1..Len(s) : s[i] # "0"}
    IN IF keep = {} THEN <<>> ELSE SubSeq(s, SetMin(keep), Len(s))

\* The character U+00B2 (superscript two): a digit for str.isdigit(), not a
\* decimal digit for int().
SuperscriptTwo == "sup2"

\* str.isdigit(): non-empty and every character a digit.
IsDigit(s) ==
    Len(s) > 0 /\ \A i \in 1..Len(s) : Occurs(DigitChars, s[i]) \/ s[i] = SuperscriptTwo

\* int(s) accepts the string: of the strings str.isdigit() accepts, those of
\* decimal digits only; for the others int(s) raises ValueError.
IsDecimal(s) == \A i \in 1..Len(s) : Occurs(DigitChars, s[i])

\* int(s) of a decimal digit string.
RECURSIVE ParseInt(_)
ParseInt(s) ==
    IF s = <<>> THEN 0
    ELSE 10 * ParseInt(SubSeq(s, 1, Len(s) - 1)) + (IndexOf(DigitChars, s[Len(s)]) - 1)

\* str.split(): the maximal runs of non-whitespace characters, in order.
RECURSIVE SplitFrom(_, _, _, _)
SplitFrom(s, i, cur, acc) ==
    IF i > Len(s) THEN (IF cur = <<>> THEN acc ELSE Append(acc, cur))
    ELSE IF s[i] = " "
         THEN SplitFrom(s, i + 1, <<>>, IF cur = <<>> THEN acc ELSE Append(acc, cur))
         ELSE SplitFrom(s, i + 1, Append(cur, s[i]), acc)
Split(s) == SplitFrom(s, 1, <<>>, <<>>)

\* " ".join(words)
RECURSIVE Join(_)
Join(words) ==
    IF words = <<>> THEN <<>>
    ELSE IF Len(words) = 1 THEN words[1]
    ELSE words[1] \o <<" ">> \o Join(Tail(words))

\* Faulty variant: a string occurs only in a string equal to it.
IsSubstring_whole_only(a, b) == a = b

\* a in b (substring test)
IsSubstring(a, b) == \E i \in 0..(Len(b) - Len(a)) : SubSeq(b, i + 1, i + Len(a)) = a

\* b.startswith(a)
IsPrefix(a, b) == Len(a) <= Len(b) /\ SubSeq(b, 1, Len(a)) = a

\* a < b in code-point order.
RECURSIVE StrLess(_, _)
StrLess(a, b) ==
    IF b = <<>> THEN FALSE
    ELSE IF a = <<>> THEN TRUE
    ELSE IF a[1] = b[1] THEN StrLess(Tail(a), Tail(b))
    ELSE IndexOf(AsciiOrder, a[1]) < IndexOf(AsciiOrder, b[1])

-----------------------------------------------------------------------------
(* Raw identifiers: Python values of type int, str or None *)

IntV(n) == [t |-> "int", v |-> n]
StrV(s) == [t |-> "str", v |-> s]
NoneV == [t |-> "none", v |-> 0]
\* normalize_cik's "None" result
Invalid == [t |-> "none", v |-> 0]
\* normalize_cik does not return: int(cik) raised ValueError
Raised == [t |-> "raise", v |-> 0]

\* utils.normalize_cik
normalize_cik(cik_raw) ==
    IF cik_raw.t = "int" THEN cik_raw
    ELSE IF cik_raw.t = "str"
         THEN LET cik == LStripZeros(cik_raw.v)
              IN IF ~IsDigit(cik) THEN Invalid
                 ELSE IF IsDecimal(cik) THEN IntV(ParseInt(cik)) ELSE Raised
         ELSE Invalid

-----------------------------------------------------------------------------
(* Python dicts: insertion-ordered sequences of key/value entries *)

DictHas(d, k) == \E i \in 1..Len(d) : d[i].k = k
DictGet(d, k, default) ==
    IF DictHas(d, k) THEN d[CHOOSE i \in 1..Len(d) : d[i].k = k].v ELSE default
DictPut(d, k, v) ==
    IF DictHas(d, k)
    THEN [i \in 1..Len(d) |-> IF d[i].k = k THEN [k |-> k, v |-> v] ELSE d[i]]
    ELSE Append(d, [k |-> k, v |-> v])
DictKeys(d) == {d[i].k : i \in 1..Len(d)}

-----------------------------------------------------------------------------
(* Entity Index construction *)

\* "x or ''" applied to a descriptor field: a falsy value becomes "".
OrEmpty(raw) ==
    IF raw = NoneV \/ raw = IntV(0) \/ raw = StrV(<<>>) THEN StrV(<<>>) ELSE raw

\* The module-level initial value of _memory_cache, and clear_cache_impl's.
EmptyCache == [companies |-> <<>>, by_ticker |-> <<>>, by_cik |-> <<>>, by_name |-> <<>>]

\* Faulty variant: by_name is keyed by the name as written.
LoadOne_name_key_as_written(info, c) ==
    LET cik_int  == normalize_cik(OrEmpty(info.cik_str))
        ticker   == Upper(info.ticker)
        title    == info.title
        id       == Len(c.companies)
    IN IF cik_int # Invalid /\ ticker # <<>> /\ title # <<>>
       THEN [companies |-> DictPut(c.companies, id,
                                   [cik |-> cik_int.v, ticker |-> ticker, name |-> title]),
             by_ticker |-> DictPut(c.by_ticker, ticker, id),
             by_cik    |-> DictPut(c.by_cik, cik_int.v,
                                   Append(DictGet(c.by_cik, cik_int.v, <<>>), id)),
             by_name   |-> DictPut(c.by_name, title,
                                   Append(DictGet(c.by_name, title, <<>>), id))]
       ELSE c

\* Faulty variant: a filer's list of ids is started anew by each record.
LoadOne_restarts_cik_list(info, c) ==
    LET cik_int  == normalize_cik(OrEmpty(info.cik_str))
        ticker   == Upper(info.ticker)
        title    == info.title
        id       == Len(c.companies)
        name_low == Lower(title)
    IN IF cik_int # Invalid /\ ticker # <<>> /\ title # <<>>
       THEN [companies |-> DictPut(c.companies, id,
                                   [cik |-> cik_int.v, ticker |-> ticker, name |-> title]),
             by_ticker |-> DictPut(c.by_ticker, ticker, id),
             by_cik    |-> DictPut(c.by_cik, cik_int.v, <<id>>),
             by_name   |-> DictPut(c.by_name, name_low,
                                   Append(DictGet(c.by_name, name_low, <<>>), id))]
       ELSE c

\* One iteration of _load_data_to_memory's loop over data.items(). The filer
\* numbers of the snapshots are integers or strings of ASCII characters, for
\* which normalize_cik returns.
LoadOne(info, c) ==
    LET cik_int  == normalize_cik(OrEmpty(info.cik_str))
        ticker   == Upper(info.ticker)
        title    == info.title
        id       == Len(c.companies)
        name_low == Lower(title)
    IN IF cik_int # Invalid /\ ticker # <<>> /\ title # <<>>
       THEN [companies |-> DictPut(c.companies, id,
                                   [cik |-> cik_int.v, ticker |-> ticker, name |-> title]),
             by_ticker |-> DictPut(c.by_ticker, ticker, id),
             by_cik    |-> DictPut(c.by_cik, cik_int.v,
                                   Append(DictGet(c.by_cik, cik_int.v, <<>>), id)),
             by_name   |-> DictPut(c.by_name, name_low,
                                   Append(DictGet(c.by_name, name_low, <<>>), id))]
       ELSE c

RECURSIVE LoadFrom(_, _, _)
LoadFrom(data, i, c) ==
    IF i > Len(data) THEN c ELSE LoadFrom(data, i + 1, LoadOne(data[i], c))

\* The cache structure _load_data_to_memory installs for a snapshot.
BuildIndex(data) == LoadFrom(data, 1, EmptyCache)

-----------------------------------------------------------------------------
(* Corpus snapshots the data fetcher can return *)

sAAPL == <<"A","A","P","L">>
sGOOG == <<"G","O","O","G">>
sMSFT == <<"M","S","F","T">>
nApple == <<"A","p","p","l","e"," ","I","n","c",".">>
nAlphabet == <<"A","l","p","h","a","b","e","t"," ","I","n","c",".">>
nMicrosoft == <<"M","i","c","r","o","s","o","f","t"," ","C","o","r","p">>

Desc(cik, ticker, title) == [cik_str |-> cik, ticker |-> ticker, title |-> title]

\* Two companies, one record each.
SnapA == << Desc(StrV(<<"0","0","0","5">>), sAAPL, nApple),
            Desc(StrV(<<"7">>), sGOOG, nAlphabet) >>

\* Two share classes of one filer under one name, an invalid descriptor, a
\* lower-case ticker.
SnapB == << Desc(StrV(<<"5">>), sAAPL, nApple),
            Desc(IntV(5), <<"A","A","P","L","-","W">>, nApple),
            Desc(StrV(<<"x","1">>), <<"B","A","D">>, <<"B","a","d"," ","C","o">>),
            Desc(StrV(<<"0","9">>), <<"m","s","f","t">>, nMicrosoft) >>

\* The same (filer number, ticker) pair twice: a ticker collision in memory and
\* a UNIQUE(cik, ticker) violation in the persistent index.
SnapC == << Desc(StrV(<<"5">>), sAAPL, nApple),
            Desc(StrV(<<"0","5">>), <<"a","a","p","l">>, <<"A","p","p","l","e"," ","C","o","m","p","u","t","e","r">>) >>

\* A ticker that is also the name of two other companies and part of the
\* name of a third.
SnapS == << Desc(StrV(<<"3">>), <<"B">>, <<"A","b">>),
            Desc(StrV(<<"4">>), <<"a","b">>, <<"C","d">>),
            Desc(StrV(<<"6">>), <<"C">>, <<"A","B">>),
            Desc(StrV(<<"8">>), <<"D">>, <<"A","b","c">>) >>

\* Two share classes of one filer under one name, the class with the
\* alphabetically later ticker listed first.
SnapR == << Desc(StrV(<<"5">>), <<"A","A","P","L","-","W">>, nApple),
            Desc(StrV(<<"5">>), sAAPL, nApple) >>

\* The same (filer number, ticker) pair and the same name on two descriptors.
SnapD == << Desc(StrV(<<"5">>), sAAPL, nApple),
            Desc(StrV(<<"0","5">>), <<"a","a","p","l">>, <<"A","P","P","L","E"," ","I","N","C",".">>) >>

Snapshots == {SnapA, SnapB, SnapC}

-----------------------------------------------------------------------------
(* The world a call runs in: w = [mc, lu, file, db, email, now]               *)
(*   mc    _memory_cache            lu   _last_update (0: never loaded)       *)
(*   file  DATA_FILE on disk        db   the SQLite companies table           *)
(*   email config._user_email set   now  time.time()                          *)
(* and what its collaborators do during the call: env = [net, snap, db_fails] *)
(*   net      "ok" or "fail": the outcome of requests.get                     *)
(*   snap     the snapshot the SEC endpoint serves                            *)
(*   db_fails the SQLite connection raises sqlite3.Error                      *)

NoFile == [exists |-> FALSE, data |-> <<>>, mtime |-> 0]
NoDb == [exists |-> FALSE, rows |-> <<>>]

World == [mc |-> memory_cache, lu |-> last_update, file |-> data_file, db |-> db,
          email |-> user_email, now |-> now]

\* The snapshots the endpoint serves while the cache lifecycle is explored.
Served == {SnapA, SnapC}

Envs == [net : {"ok", "fail"}, snap : Served, db_fails : BOOLEAN]

\* Faulty variant: a never-set timestamp is aged like any other.
is_cache_expired_zero_is_a_time(lu, t) ==
    (t - lu) * HoursPerTick > CACHE_EXPIRY_HOURS

\* utils.is_cache_expired
is_cache_expired(lu, t) ==
    IF lu = 0 THEN TRUE
    ELSE (t - lu) * HoursPerTick > CACHE_EXPIRY_HOURS

\* utils.load_from_cache: (data, timestamp), or (None, 0) as exists = FALSE.
load_from_cache(w) ==
    IF w.file.exists /\ (w.now - w.file.mtime) * HoursPerTick <= CACHE_EXPIRY_HOURS
    THEN [exists |-> TRUE, data |-> w.file.data, mtime |-> w.file.mtime]
    ELSE NoFile

\* utils.download_sec_data: [w, exc, data].
download_sec_data(w, env) ==
    IF ~w.email
    THEN [w |-> w, exc |-> "ValueError", data |-> <<>>]
    ELSE IF env.net = "ok"
    THEN [w |-> [w EXCEPT !.file = [exists |-> TRUE, data |-> env.snap, mtime |-> w.now]],
          exc |-> "none", data |-> env.snap]
    ELSE IF w.file.exists
    THEN [w |-> w, exc |-> "none", data |-> w.file.data]
    ELSE [w |-> w, exc |-> "RequestException", data |-> <<>>]

\* _load_data_to_memory: the index and the timestamp are replaced together.
load_data_to_memory(w, data) ==
    [w EXCEPT !.mc = BuildIndex(data), !.lu = w.now]

\* The rows load_data_to_db inserts: (cik, ticker, title) of every valid descriptor.
RECURSIVE DbRowsFrom(_, _, _)
DbRowsFrom(data, i, acc) ==
    IF i > Len(data) THEN acc
    ELSE LET cik_int == normalize_cik(OrEmpty(data[i].cik_str))
             ticker  == data[i].ticker
             title   == data[i].title
         IN DbRowsFrom(data, i + 1,
               IF cik_int # Invalid /\ ticker # <<>> /\ title # <<>>
               THEN Append(acc, [cik |-> cik_int.v, ticker |-> Upper(ticker), title |-> title])
               ELSE acc)
DbRows(data) == DbRowsFrom(data, 1, <<>>)

\* The table's UNIQUE(cik, ticker) constraint.
UniquePairs(rows) ==
    \A i, j \in 1..Len(rows) :
        (rows[i].cik = rows[j].cik /\ rows[i].ticker = rows[j].ticker) => i = j

\* db.load_data_to_db: [w, exc]. The transaction is rolled back on an error;
\* init_database has created the (empty) tables by then.
load_data_to_db(w, data, env) ==
    IF env.db_fails THEN [w |-> w, exc |-> "sqlite3.Error"]
    ELSE IF ~UniquePairs(DbRows(data))
    THEN [w |-> [w EXCEPT !.db = [exists |-> TRUE, rows |-> w.db.rows]],
          exc |-> "sqlite3.Error"]
    ELSE [w |-> [w EXCEPT !.db = [exists |-> TRUE, rows |-> DbRows(data)]],
          exc |-> "none"]

\* update_data_impl, lines 150-152: the persistent index is rebuilt after the
\* in-memory index has been replaced; an error of the rebuild gives False.
update_after_memory(l) == [w |-> l.w, exc |-> "none", ret |-> (l.exc = "none")]

\* update_data_impl, lines 149-159, given download_sec_data's outcome d.
update_after_download(d, env) ==
    IF d.exc = "ValueError" THEN [w |-> d.w, exc |-> "ValueError", ret |-> FALSE]
    ELSE IF d.exc # "none" THEN [w |-> d.w, exc |-> "none", ret |-> FALSE]
    ELSE update_after_memory(load_data_to_db(load_data_to_memory(d.w, d.data), d.data, env))

\* update_data_impl: [w, exc, ret].
update_data_impl(w, env) == update_after_download(download_sec_data(w, env), env)

\* Faulty variant: a refresh that returned False is taken for a load.
ensure_after_update_ignores_false(u) ==
    IF u.exc = "ValueError" THEN [w |-> u.w, exc |-> "ValueError"]
    ELSE [w |-> u.w, exc |-> "none"]

\* Faulty variant: the configuration error is turned into a RuntimeError.
ensure_after_update_swallow(u) ==
    IF u.exc # "none" \/ ~u.ret THEN [w |-> u.w, exc |-> "RuntimeError"]
    ELSE [w |-> u.w, exc |-> "none"]

\* ensure_data_loaded, lines 130-137, given update_data_impl's outcome u.
ensure_after_update(u) ==
    IF u.exc = "ValueError" THEN [w |-> u.w, exc |-> "ValueError"]
    ELSE IF ~u.ret THEN [w |-> u.w, exc |-> "RuntimeError"]
    ELSE [w |-> u.w, exc |-> "none"]

\* ensure_data_loaded, lines 126-137, given load_from_cache's outcome c.
ensure_after_cache(w, env, c) ==
    IF c.exists /\ c.data # <<>>
    THEN [w |-> [load_data_to_memory(w, c.data) EXCEPT !.lu = c.mtime], exc |-> "none"]
    ELSE ensure_after_update(update_data_impl(w, env))

\* Faulty variant: every call reloads.
ensure_data_loaded_always_reloads(w, env) ==
    ensure_after_cache(w, env, load_from_cache(w))

\* ensure_data_loaded: [w, exc].
ensure_data_loaded(w, env) ==
    IF is_cache_expired(w.lu, w.now)
    THEN ensure_after_cache(w, env, load_from_cache(w))
    ELSE [w |-> w, exc |-> "none"]

\* db.get_db_stats: an error of the connection is logged and the count stays 0.
get_db_stats(w, env) ==
    [db_exists |-> w.db.exists,
     db_companies_count |-> IF w.db.exists /\ ~env.db_fails THEN Len(w.db.rows) ELSE 0]

\* get_cache_info_impl, lines 706-711, after ensure_data_loaded's outcome l.
cache_info_loaded(l, env) ==
    IF l.exc # "none" THEN [w |-> l.w, exc |-> l.exc, ret |-> <<>>]
    ELSE [w |-> l.w, exc |-> "none",
          ret |-> [companies_cached |-> Len(l.w.mc.companies),
                   last_update |-> l.w.lu,
                   cache_expired |-> is_cache_expired(l.w.lu, l.w.now),
                   db_stats |-> get_db_stats(l.w, env)]]

\* get_cache_info_impl: [w, exc, ret].
get_cache_info_impl(w, env) == cache_info_loaded(ensure_data_loaded(w, env), env)

-----------------------------------------------------------------------------
(* Structured responses *)

Ok(data) == [success |-> TRUE, data |-> data]
Err(msg, arg, code) == [success |-> FALSE, error |-> <<msg, arg>>, error_code |-> code]

\* The value of a call that raised.
NoRet == [raised |-> TRUE]

None == -1

-----------------------------------------------------------------------------
(* Single-identifier resolvers: [w, exc, ret] *)

\* get_company_by_ticker_single, lines 172-184, after ensure_data_loaded (e).
ticker_lookup(e, ticker, company_id) ==
    IF e.exc # "none" THEN [w |-> e.w, exc |-> e.exc, ret |-> NoRet]
    ELSE IF company_id # None
    THEN [w |-> e.w, exc |-> "none", ret |-> Ok(DictGet(e.w.mc.companies, company_id, None))]
    ELSE [w |-> e.w, exc |-> "none", ret |-> Err("Ticker not found", ticker, "NOT_FOUND")]

\* Faulty variant: the ticker is looked up as typed.
ticker_loaded_as_typed(e, ticker) ==
    ticker_lookup(e, ticker, DictGet(e.w.mc.by_ticker, Strip(ticker), None))

ticker_loaded(e, ticker) ==
    ticker_lookup(e, ticker, DictGet(e.w.mc.by_ticker, Upper(Strip(ticker)), None))

\* get_company_by_ticker_single
get_company_by_ticker_single(w, env, ticker) ==
    IF Strip(ticker) = <<>>
    THEN [w |-> w, exc |-> "none",
          ret |-> Err("Invalid ticker: empty or whitespace", <<>>, "INVALID_INPUT")]
    ELSE ticker_loaded(ensure_data_loaded(w, env), ticker)

\* [_memory_cache["companies"][company_id] for company_id in company_ids]
CompaniesOf(mc, company_ids) ==
    [i \in 1..Len(company_ids) |-> DictGet(mc.companies, company_ids[i], None)]

\* Faulty variant: only the first record of the filer is returned.
cik_lookup_first_only(e, cik, company_list) ==
    IF e.exc # "none" THEN [w |-> e.w, exc |-> e.exc, ret |-> NoRet]
    ELSE IF company_list # <<>>
    THEN [w |-> e.w, exc |-> "none", ret |-> Ok(<<company_list[1]>>)]
    ELSE [w |-> e.w, exc |-> "none", ret |-> Err("CIK not found", cik, "NOT_FOUND")]

\* get_company_by_cik_single, lines 257-268, after ensure_data_loaded (e).
cik_lookup(e, cik, company_list) ==
    IF e.exc # "none" THEN [w |-> e.w, exc |-> e.exc, ret |-> NoRet]
    ELSE IF company_list # <<>>
    THEN [w |-> e.w, exc |-> "none", ret |-> Ok(company_list)]
    ELSE [w |-> e.w, exc |-> "none", ret |-> Err("CIK not found", cik, "NOT_FOUND")]

cik_loaded(e, cik, cik_int) ==
    cik_lookup(e, cik, CompaniesOf(e.w.mc, DictGet(e.w.mc.by_cik, cik_int.v, <<>>)))

\* get_company_by_cik_single
get_company_by_cik_single(w, env, cik) ==
    IF normalize_cik(cik) = Raised THEN [w |-> w, exc |-> "ValueError", ret |-> NoRet]
    ELSE IF normalize_cik(cik) = Invalid
    THEN [w |-> w, exc |-> "none",
          ret |-> Err("Invalid CIK: could not be normalized", cik, "INVALID_INPUT")]
    ELSE cik_loaded(ensure_data_loaded(w, env), cik, normalize_cik(cik))

\* The records of every indexed name that contains `shortened`, in the order of
\* the scan over by_name.items().
RECURSIVE MatchingFrom(_, _, _, _)
MatchingFrom(mc, shortened, i, acc) ==
    IF i > Len(mc.by_name) THEN acc
    ELSE MatchingFrom(mc, shortened, i + 1,
            IF IsSubstring(shortened, mc.by_name[i].k)
            THEN acc \o [j \in 1..Len(mc.by_name[i].v) |->
                            DictGet(mc.companies, mc.by_name[i].v[j], None)]
            ELSE acc)
matching_companies(mc, shortened) == MatchingFrom(mc, shortened, 1, <<>>)

\* One pass of the while loop of get_company_by_name_single, given the
\* matches m of the current candidate; Shorter is the loop's continuation.
RECURSIVE FuzzyLoop(_, _, _)
\* Faulty variant: the first of several matches is returned.
FuzzyStep_first_of_many(mc, name, words, m) ==
    IF Len(m) >= 1 THEN Ok(m[1])
    ELSE FuzzyLoop(mc, name, SubSeq(words, 1, Len(words) - 1))

FuzzyStep(mc, name, words, m) ==
    IF Len(m) = 1 THEN Ok(m[1])
    ELSE IF Len(m) > 1
    THEN Err("Company name does not match any name", name, "NOT_FOUND")
    ELSE FuzzyLoop(mc, name, SubSeq(words, 1, Len(words) - 1))

\* Faulty variant: only the whole name is tried, never a shorter prefix.
FuzzyLoop_whole_name_only(mc, name, words) ==
    IF Len(words) = 0 \/ Join(words) # Join(Split(Strip(name)))
    THEN Err("Company name does not match any name", name, "NOT_FOUND")
    ELSE FuzzyStep(mc, name, words, matching_companies(mc, Lower(Join(words))))

\* The while loop of get_company_by_name_single: words is shortened from the
\* end until some candidate matches.
FuzzyLoop(mc, name, words) ==
    IF Len(words) = 0
    THEN Err("Company name does not match any name", name, "NOT_FOUND")
    ELSE FuzzyStep(mc, name, words, matching_companies(mc, Lower(Join(words))))

\* Faulty variant: of several records sharing the name the last is returned.
name_lookup_last_inserted(e, name, fuzzy, company_ids) ==
    IF e.exc # "none" THEN [w |-> e.w, exc |-> e.exc, ret |-> NoRet]
    ELSE IF Len(company_ids) >= 1
    THEN [w |-> e.w, exc |-> "none",
          ret |-> Ok(DictGet(e.w.mc.companies, company_ids[Len(company_ids)], None))]
    ELSE IF fuzzy
    THEN [w |-> e.w, exc |-> "none", ret |-> FuzzyLoop(e.w.mc, name, Split(Strip(name)))]
    ELSE [w |-> e.w, exc |-> "none", ret |-> Err("Company name not found", name, "NOT_FOUND")]

\* get_company_by_name_single, lines 360-414, after ensure_data_loaded (e).
name_lookup(e, name, fuzzy, company_ids) ==
    IF e.exc # "none" THEN [w |-> e.w, exc |-> e.exc, ret |-> NoRet]
    ELSE IF Len(company_ids) >= 1
    THEN [w |-> e.w, exc |-> "none",
          ret |-> Ok(DictGet(e.w.mc.companies, company_ids[1], None))]
    ELSE IF fuzzy
    THEN [w |-> e.w, exc |-> "none", ret |-> FuzzyLoop(e.w.mc, name, Split(Strip(name)))]
    ELSE [w |-> e.w, exc |-> "none", ret |-> Err("Company name not found", name, "NOT_FOUND")]

name_loaded(e, name, fuzzy) ==
    name_lookup(e, name, fuzzy, DictGet(e.w.mc.by_name, Lower(Strip(name)), <<>>))

\* get_company_by_name_single
get_company_by_name_single(w, env, name, fuzzy) ==
    IF Strip(name) = <<>>
    THEN [w |-> w, exc |-> "none",
          ret |-> Err("Invalid name: empty or whitespace", <<>>, "INVALID_INPUT")]
    ELSE name_loaded(ensure_data_loaded(w, env), name, fuzzy)

\* The while loop of get_company_by_name_single, lines 378-401: the candidates
\* whose substring scan over by_name.items() it runs, in order.
RECURSIVE FuzzyScans(_, _)
FuzzyScans(mc, words) ==
    IF Len(words) = 0 THEN <<>>
    ELSE IF matching_companies(mc, Lower(Join(words))) # <<>>
    THEN << Lower(Join(words)) >>
    ELSE << Lower(Join(words)) >> \o FuzzyScans(mc, SubSeq(words, 1, Len(words) - 1))

\* Faulty variant: the scan runs for every fuzzy call, exact hit or not.
name_scans_before_exact(e, name, fuzzy, company_ids) ==
    IF e.exc # "none" THEN <<>>
    ELSE IF fuzzy THEN FuzzyScans(e.w.mc, Split(Strip(name)))
    ELSE <<>>

\* get_company_by_name_single, lines 360-401, after ensure_data_loaded (e): the
\* substring scans of the call.
name_scans(e, name, fuzzy, company_ids) ==
    IF e.exc # "none" THEN <<>>
    ELSE IF Len(company_ids) >= 1 THEN <<>>
    ELSE IF fuzzy THEN FuzzyScans(e.w.mc, Split(Strip(name)))
    ELSE <<>>

\* get_company_by_name_single: the substring scans of the call.
name_single_scans(w, env, name, fuzzy) ==
    IF Strip(name) = <<>> THEN <<>>
    ELSE name_scans(ensure_data_loaded(w, env), name, fuzzy,
                    DictGet(ensure_data_loaded(w, env).w.mc.by_name, Lower(Strip(name)), <<>>))

-----------------------------------------------------------------------------
(* Persistent index queries: [exc, ret]; ret maps each requested key to rows *)

\* A result row as the dict the db module builds from it.
RowData(r) == [cik |-> r.cik, ticker |-> r.ticker, name |-> r.title]

\* ORDER BY CASE WHEN LOWER(title) = LOWER(q) THEN 1
\*               WHEN LOWER(title) LIKE LOWER(q || '%') THEN 2 ELSE 3 END
LikeRank(r, q) ==
    IF Lower(r.title) = Lower(q) THEN 1
    ELSE IF IsPrefix(Lower(q), Lower(r.title)) THEN 2 ELSE 3

\* ORDER BY CASE WHEN ticker LIKE q || '%' THEN 1
\*               WHEN title LIKE q || '%' THEN 2 ELSE 3 END
SearchRank(r, q) ==
    IF IsPrefix(Lower(q), Lower(r.ticker)) THEN 1
    ELSE IF IsPrefix(Lower(q), Lower(r.title)) THEN 2 ELSE 3

\* Row a sorts strictly before row b under the ORDER BY clause of a query:
\* "ticker"; "cik, ticker"; the search query's "CASE ... END, ticker" for the
\* query q; or the fuzzy name query's "CASE ... END, ticker" for the name q.
Before(a, b, order, q) ==
    CASE order = "ticker" -> StrLess(a.ticker, b.ticker)
      [] order = "cik_ticker" ->
            a.cik < b.cik \/ (a.cik = b.cik /\ StrLess(a.ticker, b.ticker))
      [] order = "like_ticker" ->
            \/ SearchRank(a, q) < SearchRank(b, q)
            \/ (SearchRank(a, q) = SearchRank(b, q) /\ StrLess(a.ticker, b.ticker))
      [] OTHER ->
            \/ LikeRank(a, q) < LikeRank(b, q)
            \/ (LikeRank(a, q) = LikeRank(b, q) /\ StrLess(a.ticker, b.ticker))

\* Rows in the order of an ORDER BY clause, ties in rowid order.
SortedBy(rows, order, q) ==
    LET sorted[i \in 0..Len(rows)] ==
            IF i = 0 THEN <<>>
            ELSE LET s == sorted[i - 1]
                     k == Cardinality({j \in 1..Len(s) : ~Before(rows[i], s[j], order, q)})
                 IN SubSeq(s, 1, k) \o <<rows[i]>> \o SubSeq(s, k + 1, Len(s))
    IN sorted[Len(rows)]

\* The elements q[i] with keep[i], in order (a list comprehension with a
\* condition, or SELECT ... WHERE in rowid order).
Select(q, keep) ==
    LET kept[i \in 0..Len(q)] ==
            IF i = 0 THEN <<>>
            ELSE IF keep[i] THEN Append(kept[i - 1], q[i]) ELSE kept[i - 1]
    IN kept[Len(q)]

SeqToSet(q) == {q[i] : i \in 1..Len(q)}

\* The company dicts built from the rows of a cursor.
Companies(rows) == [i \in 1..Len(rows) |-> RowData(rows[i])]

\* The connection or the query raises sqlite3.Error: the collaborator fails, or
\* the database file holds no companies table.
DbUnavailable(w, env) == env.db_fails \/ ~w.db.exists

\* db.get_companies_by_tickers_db
get_companies_by_tickers_db(w, env, tickers) ==
    IF tickers = <<>> THEN [exc |-> "none", ret |-> <<>>]
    ELSE IF DbUnavailable(w, env) THEN [exc |-> "sqlite3.Error", ret |-> <<>>]
    ELSE [exc |-> "none",
          ret |-> [t \in SeqToSet(tickers) |->
                     Companies(SortedBy(
                         Select(w.db.rows,
                                [i \in 1..Len(w.db.rows) |-> w.db.rows[i].ticker = t]),
                         "ticker", <<>>))]]

\* db.get_companies_by_ciks_db
get_companies_by_ciks_db(w, env, ciks) ==
    IF ciks = <<>> THEN [exc |-> "none", ret |-> <<>>]
    ELSE IF DbUnavailable(w, env) THEN [exc |-> "sqlite3.Error", ret |-> <<>>]
    ELSE [exc |-> "none",
          ret |-> [c \in SeqToSet(ciks) |->
                     Companies(SortedBy(
                         Select(w.db.rows,
                                [i \in 1..Len(w.db.rows) |-> w.db.rows[i].cik = c]),
                         "cik_ticker", <<>>))]]

\* WHERE LOWER(title) LIKE LOWER('%q%') for each row. The names of the model
\* hold neither '%' nor '_', so this is the case-insensitive substring test.
LikeRows(rows, q) == [i \in 1..Len(rows) |-> IsSubstring(Lower(q), Lower(rows[i].title))]

\* WHERE LOWER(title) = LOWER(q) for each row.
ExactRows(rows, q) == [i \in 1..Len(rows) |-> Lower(rows[i].title) = Lower(q)]

\* db.get_companies_by_company_names_db
get_companies_by_company_names_db(w, env, company_names, fuzzy) ==
    IF company_names = <<>> THEN [exc |-> "none", ret |-> <<>>]
    ELSE IF DbUnavailable(w, env) THEN [exc |-> "sqlite3.Error", ret |-> <<>>]
    ELSE [exc |-> "none",
          ret |-> [n \in SeqToSet(company_names) |->
                     IF Strip(n) = <<>> THEN <<>>
                     ELSE IF fuzzy
                     THEN Companies(SortedBy(Select(w.db.rows, LikeRows(w.db.rows, Strip(n))),
                                             "rank_ticker", Strip(n)))
                     ELSE Companies(SortedBy(Select(w.db.rows, ExactRows(w.db.rows, Strip(n))),
                                             "ticker", <<>>))]]

-----------------------------------------------------------------------------
(* Batch coordinators: [w, exc, ret]; ret maps raw identifiers to responses *)

\* results[k] = v on a Python dict whose order is not observed.
MapPut(m, k, v) == [x \in (DOMAIN m) \cup {k} |-> IF x = k THEN v ELSE m[x]]
EmptyMap == <<>>

\* d[e.k] = e.v for every entry e of pairs, in order, on a dict d whose order
\* is kept: a later entry replaces the value of an earlier one with its key.
RECURSIVE DictPutAll(_, _, _)
DictPutAll(pairs, i, acc) ==
    IF i > Len(pairs) THEN acc
    ELSE DictPutAll(pairs, i + 1, DictPut(acc, pairs[i].k, pairs[i].v))

\* results[e.k] = e.v for every entry e of pairs, in order.
RECURSIVE MapPutAll(_, _, _)
MapPutAll(pairs, i, acc) ==
    IF i > Len(pairs) THEN acc
    ELSE MapPutAll(pairs, i + 1, MapPut(acc, pairs[i].k, pairs[i].v))

\* if e.k not in results: results[e.k] = e.v, for every entry e of pairs.
RECURSIVE MapPutMissing(_, _, _)
MapPutMissing(pairs, i, acc) ==
    IF i > Len(pairs) THEN acc
    ELSE MapPutMissing(pairs, i + 1,
            IF pairs[i].k \in DOMAIN acc THEN acc
            ELSE MapPut(acc, pairs[i].k, pairs[i].v))

DictKeySeq(d) == [i \in 1..Len(d) |-> d[i].k]
DictValSeq(d) == [i \in 1..Len(d) |-> d[i].v]

\* The keys of a query result, as the loop over db_results.items() visits them.
\* The order does not matter: distinct keys write distinct entries.
RECURSIVE SetToSeq(_)
SetToSeq(S) ==
    IF S = {} THEN <<>>
    ELSE LET x == CHOOSE y \in S : TRUE IN <<x>> \o SetToSeq(S \ {x})

\* "t and t.strip()" for each ticker or name of a sequence, and its negation
ValidTicker(q) == [i \in 1..Len(q) |-> Strip(q[i]) # <<>>]
InvalidTicker(q) == [i \in 1..Len(q) |-> Strip(q[i]) = <<>>]
\* "normalize_cik(c) is not None" for each identifier of a sequence, and its
\* negation
ValidCik(q) == [i \in 1..Len(q) |-> normalize_cik(q[i]) # Invalid]
InvalidCik(q) == [i \in 1..Len(q) |-> normalize_cik(q[i]) = Invalid]

\* Faulty variant: an invalid input is reported as NOT_FOUND.
InvalidEntries_as_not_found(invalid, msg, with_arg) ==
    MapPutAll([i \in 1..Len(invalid) |->
                  [k |-> invalid[i],
                   v |-> Err(msg, IF with_arg THEN invalid[i] ELSE <<>>, "NOT_FOUND")]],
              1, EmptyMap)

\* results = {t: INVALID_INPUT for t in raw if not valid}, lines 209-216.
InvalidEntries(invalid, msg, with_arg) ==
    MapPutAll([i \in 1..Len(invalid) |->
                  [k |-> invalid[i],
                   v |-> Err(msg, IF with_arg THEN invalid[i] ELSE <<>>, "INVALID_INPUT")]],
              1, EmptyMap)

\* ticker_map = {t.strip().upper(): t for t in tickers if t and t.strip()}
TickerMapOf(valid) ==
    DictPutAll([i \in 1..Len(valid) |-> [k |-> Upper(Strip(valid[i])), v |-> valid[i]]],
               1, <<>>)

\* Faulty variant: a key whose list is empty gets no entry.
TickersFromDb_skips_empty(ticker_map, db_results, db_keys) ==
    LET found == Select(db_keys, [i \in 1..Len(db_keys) |-> db_results[db_keys[i]] # <<>>])
    IN [i \in 1..Len(found) |->
           [k |-> DictGet(ticker_map, found[i], None),
            v |-> Ok(db_results[found[i]][1])]]

\* Lines 222-234: one entry per key of db_results.
TickersFromDb(ticker_map, db_results, db_keys) ==
    [i \in 1..Len(db_keys) |->
        [k |-> DictGet(ticker_map, db_keys[i], None),
         v |-> IF db_results[db_keys[i]] # <<>> THEN Ok(db_results[db_keys[i]][1])
               ELSE Err("Ticker not found", DictGet(ticker_map, db_keys[i], None),
                        "NOT_FOUND")]]

\* Lines 238-241: one single lookup per normalized ticker.
TickersFromMemory(w, env, ticker_map, normalized_tickers) ==
    [i \in 1..Len(normalized_tickers) |->
        [k |-> DictGet(ticker_map, normalized_tickers[i], None),
         v |-> get_company_by_ticker_single(w, env, normalized_tickers[i]).ret]]

\* Lines 219-243, given the bulk query's outcome q.
tickers_answer(w, env, ticker_map, results0, q) ==
    IF q.exc = "none"
    THEN MapPutAll(TickersFromDb(ticker_map, q.ret, SetToSeq(DOMAIN q.ret)), 1, results0)
    ELSE MapPutAll(TickersFromMemory(w, env, ticker_map, DictKeySeq(ticker_map)), 1, results0)

tickers_query(w, env, tickers, ticker_map) ==
    tickers_answer(w, env, ticker_map,
        InvalidEntries(Select(tickers, InvalidTicker(tickers)),
                       "Invalid ticker: empty or whitespace", FALSE),
        get_companies_by_tickers_db(w, env, DictKeySeq(ticker_map)))

tickers_loaded(e, env, tickers) ==
    IF e.exc # "none" THEN [w |-> e.w, exc |-> e.exc, ret |-> NoRet]
    ELSE [w |-> e.w, exc |-> "none",
          ret |-> tickers_query(e.w, env, tickers, TickerMapOf(Select(tickers, ValidTicker(tickers))))]

\* get_companies_by_tickers_batch
get_companies_by_tickers_batch(w, env, tickers) ==
    IF tickers = <<>> THEN [w |-> w, exc |-> "none", ret |-> EmptyMap]
    ELSE tickers_loaded(ensure_data_loaded(w, env), env, tickers)

\* cik_map[cik_int] = c for every valid c, lines 293-297.
CikMapOf(valid) ==
    DictPutAll([i \in 1..Len(valid) |-> [k |-> normalize_cik(valid[i]).v, v |-> valid[i]]],
               1, <<>>)

\* normalized_ciks, lines 293-296: one entry per valid raw identifier.
NormalizedCiks(valid) == [i \in 1..Len(valid) |-> normalize_cik(valid[i]).v]

\* Lines 314-324: one entry per key of db_results.
CiksFromDb(cik_map, db_results, db_keys) ==
    [i \in 1..Len(db_keys) |->
        [k |-> DictGet(cik_map, db_keys[i], None),
         v |-> IF db_results[db_keys[i]] # <<>> THEN Ok(db_results[db_keys[i]])
               ELSE Err("CIK not found", DictGet(cik_map, db_keys[i], None), "NOT_FOUND")]]

\* Lines 327-333: NOT_FOUND for a valid identifier with no entry yet.
CiksMissing(originals) ==
    [i \in 1..Len(originals) |->
        [k |-> originals[i], v |-> Err("CIK not found", originals[i], "NOT_FOUND")]]

\* Lines 339-342: one single lookup per normalized filer number.
CiksFromMemory(w, env, cik_map, normalized_ciks) ==
    [i \in 1..Len(normalized_ciks) |->
        [k |-> DictGet(cik_map, normalized_ciks[i], None),
         v |-> get_company_by_cik_single(w, env,
                   DictGet(cik_map, normalized_ciks[i], None)).ret]]

\* Lines 311-343, given the bulk query's outcome q.
ciks_answer(w, env, cik_map, normalized_ciks, results0, q) ==
    IF q.exc = "none"
    THEN MapPutMissing(CiksMissing(DictValSeq(cik_map)), 1,
            MapPutAll(CiksFromDb(cik_map, q.ret, SetToSeq(DOMAIN q.ret)), 1, results0))
    ELSE MapPutAll(CiksFromMemory(w, env, cik_map, normalized_ciks), 1, results0)

ciks_query(w, env, ciks, valid) ==
    ciks_answer(w, env, CikMapOf(valid), NormalizedCiks(valid),
        InvalidEntries(Select(ciks, InvalidCik(ciks)),
                       "Invalid CIK: could not be normalized", TRUE),
        get_companies_by_ciks_db(w, env, NormalizedCiks(valid)))

ciks_loaded(e, env, ciks) ==
    IF e.exc # "none" THEN [w |-> e.w, exc |-> e.exc, ret |-> NoRet]
    ELSE IF \E i \in 1..Len(ciks) : normalize_cik(ciks[i]) = Raised
    THEN [w |-> e.w, exc |-> "ValueError", ret |-> NoRet]
    ELSE [w |-> e.w, exc |-> "none", ret |-> ciks_query(e.w, env, ciks, Select(ciks, ValidCik(ciks)))]

\* get_companies_by_ciks_batch
get_companies_by_ciks_batch(w, env, ciks) ==
    IF ciks = <<>> THEN [w |-> w, exc |-> "none", ret |-> EmptyMap]
    ELSE ciks_loaded(ensure_data_loaded(w, env), env, ciks)

\* Lines 452-462: one entry per key of db_results.
NamesFromDb(db_results, db_keys) ==
    [i \in 1..Len(db_keys) |->
        [k |-> db_keys[i],
         v |-> IF db_results[db_keys[i]] # <<>> THEN Ok(db_results[db_keys[i]][1])
               ELSE Err("Company name not found", db_keys[i], "NOT_FOUND")]]

\* Lines 465-471: NOT_FOUND for a valid name with no entry yet.
NamesMissing(valid_names) ==
    [i \in 1..Len(valid_names) |->
        [k |-> valid_names[i],
         v |-> Err("Company name not found", valid_names[i], "NOT_FOUND")]]

\* Lines 477-478: one single lookup per valid name.
NamesFromMemory(w, env, valid_names, fuzzy) ==
    [i \in 1..Len(valid_names) |->
        [k |-> valid_names[i],
         v |-> get_company_by_name_single(w, env, valid_names[i], fuzzy).ret]]

\* Lines 450-479, given the bulk query's outcome q.
names_answer(w, env, valid_names, fuzzy, results0, q) ==
    IF q.exc = "none"
    THEN MapPutMissing(NamesMissing(valid_names), 1,
            MapPutAll(NamesFromDb(q.ret, SetToSeq(DOMAIN q.ret)), 1, results0))
    ELSE MapPutAll(NamesFromMemory(w, env, valid_names, fuzzy), 1, results0)

names_query(w, env, names, valid_names, fuzzy) ==
    names_answer(w, env, valid_names, fuzzy,
        InvalidEntries(Select(names, InvalidTicker(names)),
                       "Invalid name: empty or whitespace", FALSE),
        get_companies_by_company_names_db(w, env, valid_names, fuzzy))

names_loaded(e, env, names, fuzzy) ==
    IF e.exc # "none" THEN [w |-> e.w, exc |-> e.exc, ret |-> NoRet]
    ELSE [w |-> e.w, exc |-> "none",
          ret |-> names_query(e.w, env, names, Select(names, ValidTicker(names)), fuzzy)]

\* get_companies_by_names_batch
get_companies_by_names_batch(w, env, names, fuzzy) ==
    IF names = <<>> THEN [w |-> w, exc |-> "none", ret |-> EmptyMap]
    ELSE names_loaded(ensure_data_loaded(w, env), env, names, fuzzy)

\* The bulk queries a batch call sends to the persistent index, as the list of
\* their key lists: none when the input is empty (the early return) or when
\* ensure_data_loaded raises, else the one query of the try block.
tickers_batch_db_calls_always_queries(w, env, tickers) ==
    IF ensure_data_loaded(w, env).exc # "none" THEN <<>>
    ELSE << DictKeySeq(TickerMapOf(Select(tickers, ValidTicker(tickers)))) >>

tickers_batch_db_calls(w, env, tickers) ==
    IF tickers = <<>> THEN <<>>
    ELSE IF ensure_data_loaded(w, env).exc # "none" THEN <<>>
    ELSE << DictKeySeq(TickerMapOf(Select(tickers, ValidTicker(tickers)))) >>

ciks_batch_db_calls(w, env, ciks) ==
    IF ciks = <<>> THEN <<>>
    ELSE IF ensure_data_loaded(w, env).exc # "none" THEN <<>>
    ELSE << NormalizedCiks(Select(ciks, ValidCik(ciks))) >>

names_batch_db_calls(w, env, names) ==
    IF names = <<>> THEN <<>>
    ELSE IF ensure_data_loaded(w, env).exc # "none" THEN <<>>
    ELSE << Select(names, ValidTicker(names)) >>

-----------------------------------------------------------------------------
(* Search: the persistent index's queries and the in-memory tiers *)

\* results[:n] on a Python list: a negative n counts from the end.
PySlice(s, n) ==
    IF n >= 0 THEN SubSeq(s, 1, IF n < Len(s) THEN n ELSE Len(s))
    ELSE SubSeq(s, 1, IF Len(s) + n > 0 THEN Len(s) + n ELSE 0)

\* LIMIT n on a SQLite cursor: a negative n is no limit.
SqlLimit(s, n) == IF n < 0 \/ n >= Len(s) THEN s ELSE SubSeq(s, 1, n)

\* The FTS5 tokenizer (unicode61): the maximal runs of letters and digits,
\* lower-cased.
IsAlnum(c) == Occurs(UpperChars, c) \/ Occurs(LowerChars, c) \/ Occurs(DigitChars, c)
FtsTokens(s) == Split(Lower([i \in 1..Len(s) |-> IF IsAlnum(s[i]) THEN s[i] ELSE " "]))

\* The MATCH argument parses as a list of barewords (an implicit AND of
\* terms); any other character of the model's alphabet ('.', '-') makes the
\* statement raise sqlite3.OperationalError.
FtsBareword(q) == \A i \in 1..Len(q) : IsAlnum(q[i]) \/ q[i] = " "

\* companies_fts holds the columns id, ticker, title; AUTOINCREMENT numbers
\* the rows of the first load into a new database 1, 2, ...
FtsDoc(rows, i) ==
    {<<DigitChars[i + 1]>>} \cup SeqToSet(FtsTokens(rows[i].ticker))
        \cup SeqToSet(FtsTokens(rows[i].title))

\* WHERE companies_fts MATCH q, for each row.
FtsHits(rows, q) ==
    [i \in 1..Len(rows) |-> SeqToSet(FtsTokens(q)) \subseteq FtsDoc(rows, i)]

\* ORDER BY rank over the rows with keep[i]. FTS5's bm25 score is not
\* computed: the rows come in rowid order (equal scores) or, when the
\* query's environment says so, in the opposite order.
Ranked(rows, keep, desc) ==
    IF desc
    THEN [k \in 1..Len(Select(rows, keep)) |->
             Select(rows, keep)[Len(Select(rows, keep)) + 1 - k]]
    ELSE Select(rows, keep)

\* WHERE (ticker LIKE '%q%' OR title LIKE '%q%'), for each row. LIKE ignores
\* the case of ASCII letters.
SearchLike(rows, q) ==
    [i \in 1..Len(rows) |-> \/ IsSubstring(Lower(q), Lower(rows[i].ticker))
                            \/ IsSubstring(Lower(q), Lower(rows[i].title))]

\* WHERE LOWER(ticker) = LOWER(q) OR LOWER(title) = LOWER(q), for each row.
SearchExact(rows, q) ==
    [i \in 1..Len(rows) |-> \/ Lower(rows[i].ticker) = Lower(q)
                            \/ Lower(rows[i].title) = Lower(q)]

\* "any(r['cik'] == x['cik'] and r['ticker'] == x['ticker'] for r in results)"
IsDuplicate(results, x) ==
    \E j \in 1..Len(results) : results[j].cik = x.cik /\ results[j].ticker = x.ticker

\* The merge loop: each of more[i..] is appended to results unless results has
\* reached limit (break) or already holds its (cik, ticker) pair.
RECURSIVE AddNew(_, _, _, _)
AddNew(results, more, i, limit) ==
    IF i > Len(more) \/ Len(results) >= limit THEN results
    ELSE AddNew(IF IsDuplicate(results, more[i]) THEN results
                ELSE Append(results, more[i]),
                more, i + 1, limit)

\* search_companies_db, lines 180-225: the LIKE query after the FTS results.
search_like_after_fts(rows, query, limit, results) ==
    IF Len(results) < limit
    THEN AddNew(results,
                Companies(SqlLimit(SortedBy(Select(rows, SearchLike(rows, query)),
                                            "like_ticker", query),
                                   (limit - Len(results)) * 2)),
                1, limit)
    ELSE results

\* db.search_companies_db: [exc, ret].
search_companies_db(w, env, query, limit, fuzzy) ==
    IF Strip(query) = <<>> THEN [exc |-> "none", ret |-> <<>>]
    ELSE IF DbUnavailable(w, env) THEN [exc |-> "sqlite3.Error", ret |-> <<>>]
    ELSE IF ~fuzzy
    THEN [exc |-> "none",
          ret |-> Companies(SqlLimit(SortedBy(Select(w.db.rows, SearchExact(w.db.rows, query)),
                                              "ticker", <<>>), limit))]
    ELSE IF ~FtsBareword(query) THEN [exc |-> "sqlite3.Error", ret |-> <<>>]
    ELSE [exc |-> "none",
          ret |-> search_like_after_fts(
                      w.db.rows, query, limit,
                      Companies(SqlLimit(Ranked(w.db.rows, FtsHits(w.db.rows, query), env.fts_desc),
                                         limit)))]

\* db.search_companies_by_company_name_db: [exc, ret]. An error of a statement
\* is caught and answered with []; an error of the connection is not.
search_companies_by_company_name_db(w, env, company_name_query, limit, fuzzy) ==
    IF Strip(company_name_query) = <<>> THEN [exc |-> "none", ret |-> <<>>]
    ELSE IF env.db_fails THEN [exc |-> "sqlite3.Error", ret |-> <<>>]
    ELSE IF ~w.db.exists THEN [exc |-> "none", ret |-> <<>>]
    ELSE IF ~fuzzy
    THEN [exc |-> "none",
          ret |-> Companies(SqlLimit(SortedBy(Select(w.db.rows,
                                                     ExactRows(w.db.rows, Strip(company_name_query))),
                                              "ticker", <<>>), limit))]
    ELSE [exc |-> "none",
          ret |-> Companies(SqlLimit(SortedBy(Select(w.db.rows,
                                                     LikeRows(w.db.rows, Strip(company_name_query))),
                                              "rank_ticker", Strip(company_name_query)), limit))]

\* The ids a loop over "for key, company_id in ..." collects: each entry
\* pairs[i..] whose key contains query_lower and whose id is new is appended;
\* the loop breaks once limit ids are held.
RECURSIVE ScanFrom(_, _, _, _, _)
ScanFrom(pairs, i, query_lower, limit, ids) ==
    IF i > Len(pairs) THEN ids
    ELSE IF IsSubstring(query_lower, pairs[i].k) /\ pairs[i].v \notin SeqToSet(ids)
    THEN IF Len(ids) + 1 >= limit THEN Append(ids, pairs[i].v)
         ELSE ScanFrom(pairs, i + 1, query_lower, limit, Append(ids, pairs[i].v))
    ELSE ScanFrom(pairs, i + 1, query_lower, limit, ids)

\* by_ticker.items() with each ticker lower-cased.
TickerPairs(mc) ==
    [i \in 1..Len(mc.by_ticker) |-> [k |-> Lower(mc.by_ticker[i].k), v |-> mc.by_ticker[i].v]]

\* by_name.items() with each list of ids spread out, in order.
RECURSIVE NamePairs(_, _)
NamePairs(by_name, i) ==
    IF i > Len(by_name) THEN <<>>
    ELSE [j \in 1..Len(by_name[i].v) |-> [k |-> by_name[i].k, v |-> by_name[i].v[j]]]
            \o NamePairs(by_name, i + 1)

\* _search_companies_memory, lines 580-590: the name scan after the ticker scan.
scan_names_after_tickers(mc, query_lower, limit, ids) ==
    IF Len(ids) < limit
    THEN ScanFrom(NamePairs(mc.by_name, 1), 1, query_lower, limit, ids)
    ELSE ids

\* _search_companies_memory
search_companies_memory(mc, query, limit, fuzzy) ==
    IF fuzzy
    THEN CompaniesOf(mc, scan_names_after_tickers(
                             mc, Lower(query), limit,
                             ScanFrom(TickerPairs(mc), 1, Lower(query), limit, <<>>)))
    ELSE <<>>

\* Faulty variant: the exact name hits are listed before the exact ticker hit.
exact_ids_names_first(mc, query_stripped, with_ticker) ==
    IF with_ticker /\ DictHas(mc.by_ticker, Upper(query_stripped))
    THEN Select(DictGet(mc.by_name, Lower(query_stripped), <<>>),
                [i \in 1..Len(DictGet(mc.by_name, Lower(query_stripped), <<>>)) |->
                    DictGet(mc.by_name, Lower(query_stripped), <<>>)[i]
                        # DictGet(mc.by_ticker, Upper(query_stripped), None)])
            \o <<DictGet(mc.by_ticker, Upper(query_stripped), None)>>
    ELSE DictGet(mc.by_name, Lower(query_stripped), <<>>)

\* search_companies_impl, lines 508-519: the ids of the exact ticker hit and
\* of the exact name hits not seen before.
exact_ids(mc, query_stripped, with_ticker) ==
    IF with_ticker /\ DictHas(mc.by_ticker, Upper(query_stripped))
    THEN <<DictGet(mc.by_ticker, Upper(query_stripped), None)>>
            \o Select(DictGet(mc.by_name, Lower(query_stripped), <<>>),
                      [i \in 1..Len(DictGet(mc.by_name, Lower(query_stripped), <<>>)) |->
                          DictGet(mc.by_name, Lower(query_stripped), <<>>)[i]
                              # DictGet(mc.by_ticker, Upper(query_stripped), None)])
    ELSE DictGet(mc.by_name, Lower(query_stripped), <<>>)

\* Faulty variant: an error of the persistent index ends the search with the
\* exact hits only.
search_merge_no_fallback(w, d, query_stripped, limit, fuzzy, results) ==
    IF d.exc = "none" THEN AddNew(results, d.ret, 1, limit)
    ELSE results

\* search_companies_impl, lines 528-559, given the persistent index's answer d.
search_merge(w, d, query_stripped, limit, fuzzy, results) ==
    IF d.exc = "none" THEN AddNew(results, d.ret, 1, limit)
    ELSE AddNew(results, search_companies_memory(w.mc, query_stripped, limit, fuzzy), 1, limit)

\* search_companies_impl, lines 521-561, given the exact in-memory hits.
search_lower_tiers(w, env, query_stripped, limit, fuzzy, results) ==
    IF Len(results) >= limit /\ ~fuzzy THEN PySlice(results, limit)
    ELSE IF Len(results) < limit
    THEN PySlice(search_merge(w, search_companies_db(w, env, query_stripped, limit, fuzzy),
                              query_stripped, limit, fuzzy, results), limit)
    ELSE PySlice(results, limit)

\* search_companies_impl, lines 497-561, after ensure_data_loaded (e).
search_loaded(e, env, query, limit, fuzzy) ==
    IF e.exc # "none" THEN [w |-> e.w, exc |-> e.exc, ret |-> NoRet]
    ELSE IF Strip(query) = <<>> THEN [w |-> e.w, exc |-> "none", ret |-> <<>>]
    ELSE [w |-> e.w, exc |-> "none",
          ret |-> search_lower_tiers(e.w, env, Strip(query), limit, fuzzy,
                                     CompaniesOf(e.w.mc, exact_ids(e.w.mc, Strip(query), TRUE)))]

\* search_companies_impl: [w, exc, ret].
search_companies_impl(w, env, query, limit, fuzzy) ==
    search_loaded(ensure_data_loaded(w, env), env, query, limit, fuzzy)

\* search_companies_by_company_name_impl, lines 656-673: the fallback when the
\* persistent index raised, given get_company_by_name_single's response f.
name_search_fallback(f, limit, results) ==
    IF f.success /\ Len(results) < limit /\ ~IsDuplicate(results, f.data)
    THEN Append(results, f.data)
    ELSE results

\* search_companies_by_company_name_impl, lines 637-673, given the persistent
\* index's answer d.
name_search_merge(w, env, d, query_stripped, limit, fuzzy, results) ==
    IF d.exc = "none" THEN AddNew(results, d.ret, 1, limit)
    ELSE name_search_fallback(get_company_by_name_single(w, env, query_stripped, fuzzy).ret,
                              limit, results)

\* search_companies_by_company_name_impl, lines 632-675, given the exact hits.
name_search_lower_tiers(w, env, query_stripped, limit, fuzzy, results) ==
    IF Len(results) >= limit /\ ~fuzzy THEN PySlice(results, limit)
    ELSE IF Len(results) < limit
    THEN PySlice(name_search_merge(
                     w, env,
                     search_companies_by_company_name_db(w, env, query_stripped, limit, fuzzy),
                     query_stripped, limit, fuzzy, results), limit)
    ELSE PySlice(results, limit)

\* search_companies_by_company_name_impl, lines 619-675, after ensure_data_loaded (e).
name_search_loaded(e, env, query, limit, fuzzy) ==
    IF e.exc # "none" THEN [w |-> e.w, exc |-> e.exc, ret |-> NoRet]
    ELSE [w |-> e.w, exc |-> "none",
          ret |-> name_search_lower_tiers(e.w, env, Strip(query), limit, fuzzy,
                                          CompaniesOf(e.w.mc, exact_ids(e.w.mc, Strip(query), FALSE)))]

\* search_companies_by_company_name_impl: [w, exc, ret].
search_companies_by_company_name_impl(w, env, company_name_query, limit, fuzzy) ==
    IF Strip(company_name_query) = <<>> THEN [w |-> w, exc |-> "none", ret |-> <<>>]
    ELSE name_search_loaded(ensure_data_loaded(w, env), env, company_name_query, limit, fuzzy)

\* Lines 521-528 and 633-640: the calls a search sends to the persistent
\* index, as the list of their arguments, given the exact in-memory hits.
lower_tiers_db_calls(query_stripped, limit, fuzzy, results) ==
    IF Len(results) >= limit /\ ~fuzzy THEN <<>>
    ELSE IF Len(results) < limit THEN << <<query_stripped, limit, fuzzy>> >>
    ELSE <<>>

\* search_companies_impl: the calls of search_companies_db it makes.
search_db_calls(w, env, query, limit, fuzzy) ==
    IF ensure_data_loaded(w, env).exc # "none" \/ Strip(query) = <<>> THEN <<>>
    ELSE lower_tiers_db_calls(
             Strip(query), limit, fuzzy,
             CompaniesOf(ensure_data_loaded(w, env).w.mc,
                         exact_ids(ensure_data_loaded(w, env).w.mc, Strip(query), TRUE)))

\* search_companies_by_company_name_impl: the calls of
\* search_companies_by_company_name_db it makes.
name_search_db_calls(w, env, company_name_query, limit, fuzzy) ==
    IF Strip(company_name_query) = <<>> \/ ensure_data_loaded(w, env).exc # "none" THEN <<>>
    ELSE lower_tiers_db_calls(
             Strip(company_name_query), limit, fuzzy,
             CompaniesOf(ensure_data_loaded(w, env).w.mc,
                         exact_ids(ensure_data_loaded(w, env).w.mc,
                                   Strip(company_name_query), FALSE)))

-----------------------------------------------------------------------------
(* api.get_company, the smart lookup: [w, exc, ret] *)

\* A Python value that is neither None, an int nor a str (a float, a list).
OtherV == [t |-> "other", v |-> 0]

\* Lines 241-244: get_companies_by_names(identifier_stripped, fuzzy=True),
\* given get_company_by_name_single's outcome r.
smart_by_name(r) ==
    IF r.exc # "none" THEN [w |-> r.w, exc |-> r.exc, ret |-> NoRet]
    ELSE [w |-> r.w, exc |-> "none", ret |-> IF r.ret.success THEN <<r.ret.data>> ELSE <<>>]

\* Lines 236-241: get_companies_by_tickers(identifier_stripped), given
\* get_company_by_ticker_single's outcome r.
smart_by_ticker(r, env, identifier_stripped) ==
    IF r.exc # "none" THEN [w |-> r.w, exc |-> r.exc, ret |-> NoRet]
    ELSE IF r.ret.success THEN [w |-> r.w, exc |-> "none", ret |-> <<r.ret.data>>]
    ELSE smart_by_name(get_company_by_name_single(r.w, env, identifier_stripped, TRUE))

\* Lines 231-236: get_companies_by_ciks(identifier_stripped), given
\* get_company_by_cik_single's outcome r.
smart_by_cik(r, env, identifier_stripped) ==
    IF r.exc # "none" THEN [w |-> r.w, exc |-> r.exc, ret |-> NoRet]
    ELSE IF r.ret.success THEN [w |-> r.w, exc |-> "none", ret |-> r.ret.data]
    ELSE smart_by_ticker(get_company_by_ticker_single(r.w, env, identifier_stripped),
                         env, identifier_stripped)

\* Lines 227-245: a string that is not blank.
smart_str(w, env, identifier_stripped) ==
    IF IsDigit(identifier_stripped)
    THEN smart_by_cik(get_company_by_cik_single(w, env, StrV(identifier_stripped)),
                      env, identifier_stripped)
    ELSE smart_by_ticker(get_company_by_ticker_single(w, env, identifier_stripped),
                         env, identifier_stripped)

\* Lines 215-218: get_companies_by_ciks(identifier) for an int, given
\* get_company_by_cik_single's outcome r.
smart_int(r) ==
    IF r.exc # "none" THEN [w |-> r.w, exc |-> r.exc, ret |-> NoRet]
    ELSE [w |-> r.w, exc |-> "none", ret |-> IF r.ret.success THEN r.ret.data ELSE <<>>]

\* Lines 209-245, after ensure_data_loaded (e).
smart_loaded(e, env, identifier) ==
    IF e.exc # "none" THEN [w |-> e.w, exc |-> e.exc, ret |-> NoRet]
    ELSE IF identifier.t = "none" THEN [w |-> e.w, exc |-> "none", ret |-> <<>>]
    ELSE IF identifier.t = "int" THEN smart_int(get_company_by_cik_single(e.w, env, identifier))
    ELSE IF identifier.t # "str" THEN [w |-> e.w, exc |-> "none", ret |-> <<>>]
    ELSE IF Strip(identifier.v) = <<>> THEN [w |-> e.w, exc |-> "none", ret |-> <<>>]
    ELSE smart_str(e.w, env, Strip(identifier.v))

\* api.get_company
get_company(w, env, identifier) == smart_loaded(ensure_data_loaded(w, env), env, identifier)

-----------------------------------------------------------------------------
(* Inputs of the calls *)

TickerInputs == { <<" ","a","a","p","l"," ">>, <<"Z","Z">>, <<" ">> }
CikInputs == { StrV(<<"0","0","0","5">>), IntV(8), StrV(<<"x","1">>) }
NameInputs == { <<"a","p","p","l","e"," ","i","n","c",".">>, <<"A","p","p","l","e"," ","C","o","m","p","u","t","e","r"," ","L","t","d">>, <<"I","n","c",".">> }

BatchTickers == { sAAPL, <<"a","a","p","l">>, <<"Z","Z">>, <<>> }
BatchCiks == { IntV(5), StrV(<<"0","5">>), IntV(8), StrV(<<"x","1">>) }
BatchNames == { nApple, <<"I","n","c",".">>, <<"A","p","p","l","e"," ","C","o","m","p","u","t","e","r">>, <<" ">> }

\* Every sequence over S of at most n elements.
SeqsUpTo(S, n) == UNION { [1..k -> S] : k \in 0..n }

\* The collaborators' behaviour is observed only by a call that reaches them:
\* the fetcher only when a (re)load is due.
LoadEnvs == IF is_cache_expired(last_update, now) THEN Envs
            ELSE {[e EXCEPT !.net = "fail", !.snap = SnapA] : e \in Envs}
\* The single resolvers never query the persistent index: it is observed only
\* by the rebuild a due (re)load performs.
ReadEnvs == IF is_cache_expired(last_update, now) THEN Envs
            ELSE {e \in LoadEnvs : ~e.db_fails}

-----------------------------------------------------------------------------
(* The state machine *)

Idle == [at |-> "idle"]

\* The process after import, on a machine with no cache directory.
Fresh == [mc |-> EmptyCache, lu |-> 0, file |-> NoFile, db |-> NoDb,
          email |-> FALSE, now |-> 1]

\* The memo tables of the functions wrapped in functools.lru_cache, each a set
\* of <<argument, returned value>>: empty at import.
NoMemo == [by_ticker |-> {}, by_cik |-> {}]

Init ==
    /\ memory_cache = Fresh.mc
    /\ last_update = Fresh.lu
    /\ data_file = Fresh.file
    /\ db = Fresh.db
    /\ user_email = Fresh.email
    /\ now = Fresh.now
    /\ result = [op |-> "import"]
    /\ pc = Idle
    /\ lru_cache = NoMemo

\* What a call leaves behind in the process and on disk.
InstallWorld(w) ==
    /\ memory_cache' = w.mc
    /\ last_update' = w.lu
    /\ data_file' = w.file
    /\ db' = w.db
    /\ UNCHANGED <<user_email, now, lru_cache>>

Install(w) == InstallWorld(w) /\ UNCHANGED pc

Returned(op, args, env, r) ==
    result' = [op |-> op, args |-> args, env |-> env, exc |-> r.exc,
               ret |-> IF r.exc = "none" THEN r.ret ELSE NoRet]

\* time.time() advances.
Tick ==
    /\ now < MaxTime
    /\ now' = now + 1
    /\ result' = [op |-> "tick"]
    /\ UNCHANGED <<memory_cache, last_update, data_file, db, user_email, pc, lru_cache>>

\* The system clock is set back (time.time() is not monotonic).
ClockBack ==
    /\ now > 1
    /\ now' = now - 1
    /\ result' = [op |-> "clock_back"]
    /\ UNCHANGED <<memory_cache, last_update, data_file, db, user_email, pc, lru_cache>>

\* The process ends and the package is imported again: the module globals are
\* back at their initial values, the cache directory is as it was left.
Restart ==
    /\ memory_cache' = Fresh.mc
    /\ last_update' = Fresh.lu
    /\ user_email' = Fresh.email
    /\ lru_cache' = NoMemo
    /\ result' = [op |-> "import"]
    /\ UNCHANGED <<data_file, db, now, pc>>

\* config.set_user_email / config.clear_user_email
SetUserEmail ==
    /\ user_email' = TRUE
    /\ result' = [op |-> "set_user_email"]
    /\ UNCHANGED <<memory_cache, last_update, data_file, db, now, pc, lru_cache>>

ClearUserEmail ==
    /\ user_email' = FALSE
    /\ result' = [op |-> "clear_user_email"]
    /\ UNCHANGED <<memory_cache, last_update, data_file, db, now, pc, lru_cache>>

\* api.update_data
UpdateData ==
    \E env \in Envs :
        LET r == update_data_impl(World, env)
        IN Install(r.w) /\ Returned("update_data", <<>>, env, r)

\* Faulty variant: the load timestamp survives the clear.
ClearCache_keeps_timestamp ==
    /\ memory_cache' = EmptyCache
    /\ last_update' = last_update
    /\ data_file' = NoFile
    /\ db' = NoDb
    /\ result' = [op |-> "clear_cache"]
    /\ UNCHANGED <<user_email, now, pc, lru_cache>>

\* clear_cache_impl, with utils.clear_cache_files
ClearCache ==
    /\ memory_cache' = EmptyCache
    /\ last_update' = 0
    /\ data_file' = NoFile
    /\ db' = NoDb
    /\ result' = [op |-> "clear_cache"]
    /\ UNCHANGED <<user_email, now, pc, lru_cache>>

\* api.get_cache_info
CacheInfo ==
    \E env \in LoadEnvs :
        LET r == get_cache_info_impl(World, env)
        IN Install(r.w) /\ Returned("cache_info", <<>>, env, r)

TickerSingleOver(tickers) ==
    \E env \in ReadEnvs, ticker \in tickers :
        LET r == get_company_by_ticker_single(World, env, ticker)
        IN Install(r.w) /\ Returned("ticker_single", <<ticker>>, env, r)

TickerSingle == TickerSingleOver(TickerInputs)

CikSingle ==
    \E env \in ReadEnvs, cik \in CikInputs :
        LET r == get_company_by_cik_single(World, env, cik)
        IN Install(r.w) /\ Returned("cik_single", <<cik>>, env, r)

NameSingleOver(names) ==
    \E env \in ReadEnvs, name \in names, fuzzy \in BOOLEAN :
        LET r == get_company_by_name_single(World, env, name, fuzzy)
        IN Install(r.w) /\ Returned("name_single", <<name, fuzzy>>, env, r)

NameSingle == NameSingleOver(NameInputs)

TickersBatchOver(inputs) ==
    \E env \in LoadEnvs, tickers \in inputs :
        LET r == get_companies_by_tickers_batch(World, env, tickers)
        IN Install(r.w) /\ Returned("tickers_batch", <<tickers>>, env, r)

CiksBatchOver(inputs) ==
    \E env \in LoadEnvs, ciks \in inputs :
        LET r == get_companies_by_ciks_batch(World, env, ciks)
        IN Install(r.w) /\ Returned("ciks_batch", <<ciks>>, env, r)

NamesBatchOver(inputs) ==
    \E env \in LoadEnvs, names \in inputs, fuzzy \in BOOLEAN :
        LET r == get_companies_by_names_batch(World, env, names, fuzzy)
        IN Install(r.w) /\ Returned("names_batch", <<names, fuzzy>>, env, r)

\* One batch call of each kind while the lifecycle is explored.
TickersBatch == TickersBatchOver({<<sAAPL, <<>>>>})
CiksBatch == CiksBatchOver({<<IntV(5), StrV(<<"x","1">>)>>})
NamesBatch == NamesBatchOver({<<nApple, <<" ">>>>})

Next ==
    \/ Tick
    \/ SetUserEmail
    \/ ClearUserEmail
    \/ UpdateData
    \/ ClearCache
    \/ TickerSingle
    \/ CikSingle
    \/ NameSingle
    \/ TickersBatch
    \/ CiksBatch
    \/ NamesBatch

Spec == Init /\ [][Next]_vars

-----------------------------------------------------------------------------
(* Cache ageing across restarts and clock changes: SpecStale *)

TickerRead == TickerSingleOver({sAAPL})

NextStale ==
    \/ Tick
    \/ ClockBack
    \/ Restart
    \/ SetUserEmail
    \/ UpdateData
    \/ TickerRead
    \/ CacheInfo

SpecStale == Init /\ [][NextStale]_vars

-----------------------------------------------------------------------------
(* ensure_data_loaded called directly through the lifecycle: SpecEnsure *)

\* sec_company_lookup.ensure_data_loaded, as the API layer calls it.
EnsureLoaded ==
    \E env \in Envs :
        LET r == ensure_data_loaded(World, env)
        IN Install(r.w) /\ Returned("ensure", <<>>, env, [exc |-> r.exc, ret |-> None])

NextEnsure ==
    \/ Tick
    \/ Restart
    \/ SetUserEmail
    \/ UpdateData
    \/ ClearCache
    \/ EnsureLoaded

SpecEnsure == Init /\ [][NextEnsure]_vars

-----------------------------------------------------------------------------
(* Batch calls against a loaded cache: SpecBatch *)

\* The world after a first successful update_data with the endpoint serving
\* snap, on a configured machine.
LoadedWorld(snap) ==
    update_data_impl([Fresh EXCEPT !.email = TRUE],
                     [net |-> "ok", snap |-> snap, db_fails |-> FALSE]).w

\* A caller about to make one call: the operation, its arguments, and what
\* the collaborators will do during it.
Calling(op, args, env) == [at |-> "calling", op |-> op, args |-> args, env |-> env]

\* A loaded cache and one pending call drawn from calls.
InitLoaded(snaps, calls) ==
    \E snap \in snaps :
        /\ memory_cache = LoadedWorld(snap).mc
        /\ last_update = LoadedWorld(snap).lu
        /\ data_file = LoadedWorld(snap).file
        /\ db = LoadedWorld(snap).db
        /\ user_email = TRUE
        /\ now = LoadedWorld(snap).now
        /\ result = [op |-> "update_data", args |-> <<>>, exc |-> "none", ret |-> TRUE,
                     env |-> [net |-> "ok", snap |-> snap, db_fails |-> FALSE]]
        /\ \E call \in calls, env \in LoadEnvs : pc = Calling(call[1], call[2], env)
        /\ lru_cache = NoMemo

BatchCalls ==
    ({"tickers_batch"} \X {<<q>> : q \in SeqsUpTo(BatchTickers, MaxBatch)})
    \cup ({"ciks_batch"} \X {<<q>> : q \in SeqsUpTo(BatchCiks, MaxBatch)})
    \cup ({"names_batch"} \X (SeqsUpTo(BatchNames, MaxBatch) \X BOOLEAN))

InitBatch == InitLoaded({SnapA, SnapB, SnapR}, BatchCalls)

\* The pending call is made.
CallReturns(op, r) ==
    /\ InstallWorld(r.w)
    /\ Returned(op, pc.args, pc.env, r)
    /\ pc' = Idle

TickersBatchCall ==
    /\ pc.at = "calling" /\ pc.op = "tickers_batch"
    /\ CallReturns("tickers_batch",
                   get_companies_by_tickers_batch(World, pc.env, pc.args[1]))

CiksBatchCall ==
    /\ pc.at = "calling" /\ pc.op = "ciks_batch"
    /\ CallReturns("ciks_batch", get_companies_by_ciks_batch(World, pc.env, pc.args[1]))

NamesBatchCall ==
    /\ pc.at = "calling" /\ pc.op = "names_batch"
    /\ CallReturns("names_batch",
                   get_companies_by_names_batch(World, pc.env, pc.args[1], pc.args[2]))

NextBatch ==
    \/ TickersBatchCall
    \/ CiksBatchCall
    \/ NamesBatchCall

SpecBatch == InitBatch /\ [][NextBatch]_vars

-----------------------------------------------------------------------------
(* Lookups and searches around clear_cache: SpecClear *)

\* What the collaborators do during a search made while the lifecycle is
\* explored; the fetcher is observed only when a (re)load is due.
SearchLoadEnvs ==
    {e \in [net : {"ok", "fail"}, snap : Served, db_fails : BOOLEAN, fts_desc : {FALSE}] :
        is_cache_expired(last_update, now) \/ (e.net = "fail" /\ e.snap = SnapA)}

\* api.search_companies
Search ==
    \E env \in SearchLoadEnvs, query \in {sAAPL, <<"I","n","c">>}, fuzzy \in BOOLEAN :
        LET r == search_companies_impl(World, env, query, 2, fuzzy)
        IN Install(r.w) /\ Returned("search", <<query, 2, fuzzy>>, env, r)

\* api.search_companies_by_company_name
NameSearch ==
    \E env \in SearchLoadEnvs, query \in {nApple, <<"I","n","c">>}, fuzzy \in BOOLEAN :
        LET r == search_companies_by_company_name_impl(World, env, query, 2, fuzzy)
        IN Install(r.w) /\ Returned("name_search", <<query, 2, fuzzy>>, env, r)

\* A configured process with a snapshot loaded.
InitClear ==
    /\ memory_cache = LoadedWorld(SnapA).mc
    /\ last_update = LoadedWorld(SnapA).lu
    /\ data_file = LoadedWorld(SnapA).file
    /\ db = LoadedWorld(SnapA).db
    /\ user_email = TRUE
    /\ now = LoadedWorld(SnapA).now
    /\ result = [op |-> "update_data", args |-> <<>>, exc |-> "none", ret |-> TRUE,
                 env |-> [net |-> "ok", snap |-> SnapA, db_fails |-> FALSE]]
    /\ pc = Idle
    /\ lru_cache = NoMemo

NextClear ==
    \/ ClearCache
    \/ UpdateData
    \/ TickerSingle
    \/ CikSingle
    \/ NameSingle
    \/ TickersBatch
    \/ CiksBatch
    \/ NamesBatch
    \/ Search
    \/ NameSearch

SpecClear == InitClear /\ [][NextClear]_vars

-----------------------------------------------------------------------------
(* Name resolution against generated corpora: SpecName *)

\* Company names of one to MaxTitleWords words.
TitleWords == { <<"a">>, <<"B","a">> }
Titles == { Join(ws) : ws \in UNION { [1..k -> TitleWords] : k \in 1..MaxTitleWords } }

\* Snapshots of one or two companies with generated names.
NameCorpora ==
    { << Desc(StrV(<<"1">>), <<"T">>, t) >> : t \in Titles }
    \cup { << Desc(StrV(<<"1">>), <<"T">>, t[1]), Desc(StrV(<<"2">>), <<"U">>, t[2]) >> :
             t \in Titles \X Titles }

\* Queries: every string of at most MaxQueryLen characters, and the three of
\* the documented example.
QueryChars == {"A", "b", " "}
NameQueries ==
    SeqsUpTo(QueryChars, MaxQueryLen)
    \cup { <<"A","p","p","l","e">>, <<"I","n","c",".">>, nAlphabet }

NameCalls == {"name_single"} \X (NameQueries \X BOOLEAN)

InitName == InitLoaded(NameCorpora \cup {SnapA}, NameCalls)

NameSingleCall ==
    /\ pc.at = "calling" /\ pc.op = "name_single"
    /\ CallReturns("name_single",
                   get_company_by_name_single(World, pc.env, pc.args[1], pc.args[2]))

NextName == NameSingleCall

SpecName == InitName /\ [][NextName]_vars

-----------------------------------------------------------------------------
(* Searches against a loaded cache: SpecSearch *)

MaxLimit == 4

SearchQueries == { <<"A","A","P","L">>,
                   <<" ","a","a","p","l"," ">>,
                   <<"A","p","p","l","e"," ","I","n","c",".">>,
                   <<"a","p","p","l","e">>,
                   <<"I","n","c">>,
                   <<"I","n","c",".">>,
                   <<"a","b">>,
                   <<"b">>,
                   <<" ">>,
                   <<"1">> }
Limits == (-2)..MaxLimit

\* The cache is current, so the fetcher is not reached.
SearchEnvs == [net : {"fail"}, snap : {SnapA}, db_fails : BOOLEAN, fts_desc : BOOLEAN]

SearchCalls == {Calling(op, <<q, limit, fuzzy>>, env) :
                   op \in {"search", "name_search"}, q \in SearchQueries,
                   limit \in Limits, fuzzy \in BOOLEAN, env \in SearchEnvs}

SearchSnaps == {SnapA, SnapB, SnapS, SnapD}

\* The process after a first update_data (which returned False for a snapshot
\* the persistent index rejects), and one pending search.
InitSearch ==
    \E snap \in SearchSnaps :
        /\ memory_cache = LoadedWorld(snap).mc
        /\ last_update = LoadedWorld(snap).lu
        /\ data_file = LoadedWorld(snap).file
        /\ db = LoadedWorld(snap).db
        /\ user_email = TRUE
        /\ now = LoadedWorld(snap).now
        /\ result = [op |-> "update_data", args |-> <<>>, exc |-> "none",
                     ret |-> UniquePairs(DbRows(snap)),
                     env |-> [net |-> "ok", snap |-> snap, db_fails |-> FALSE]]
        /\ pc \in SearchCalls
        /\ lru_cache = NoMemo

SearchCall ==
    /\ pc.at = "calling" /\ pc.op = "search"
    /\ CallReturns("search",
                   search_companies_impl(World, pc.env, pc.args[1], pc.args[2], pc.args[3]))

NameSearchCall ==
    /\ pc.at = "calling" /\ pc.op = "name_search"
    /\ CallReturns("name_search",
                   search_companies_by_company_name_impl(World, pc.env, pc.args[1],
                                                         pc.args[2], pc.args[3]))

NextSearch == SearchCall \/ NameSearchCall

SpecSearch == InitSearch /\ [][NextSearch]_vars

-----------------------------------------------------------------------------
(* Single resolutions against a loaded cache: SpecSingle *)

SingleTickers == { <<"A","A","P","L">>,
                   <<" ","a","a","p","l"," ">>,
                   <<"A","a","p","l">>,
                   <<"A","A","P">>,
                   <<"a","b">>,
                   <<"Z","Z">> }
SingleCiks == { IntV(5), StrV(<<"5">>), StrV(<<"0","0","0","5">>), IntV(3), StrV(<<"0","6">>), IntV(9), IntV(1), StrV(<<"0","0","8">>), IntV(0) }
SingleNames == { <<"A","p","p","l","e"," ","I","n","c",".">>,
                 <<" ","a","p","p","l","e"," ","i","n","c","."," ">>,
                 <<"A","P","P","L","E"," ","I","N","C",".">>,
                 <<"a","b">>,
                 <<"A","B">>,
                 <<"I","n","c",".">> }

SingleCalls ==
    ({"ticker_single"} \X {<<t>> : t \in SingleTickers})
    \cup ({"cik_single"} \X {<<c>> : c \in SingleCiks})
    \cup ({"name_single"} \X (SingleNames \X BOOLEAN))

InitSingle == InitLoaded({SnapA, SnapB, SnapS}, SingleCalls)

TickerSingleCall ==
    /\ pc.at = "calling" /\ pc.op = "ticker_single"
    /\ CallReturns("ticker_single", get_company_by_ticker_single(World, pc.env, pc.args[1]))

CikSingleCall ==
    /\ pc.at = "calling" /\ pc.op = "cik_single"
    /\ CallReturns("cik_single", get_company_by_cik_single(World, pc.env, pc.args[1]))

\* The caller who has just resolved a ticker resolves one again, and is done.
Done == [at |-> "done"]
TickerSingleAgain ==
    /\ pc = Idle /\ result.op = "ticker_single"
    /\ \E env \in ReadEnvs, ticker \in SingleTickers :
          LET r == get_company_by_ticker_single(World, env, ticker)
          IN /\ InstallWorld(r.w)
             /\ Returned("ticker_single", <<ticker>>, env, r)
             /\ pc' = Done

NextSingle == TickerSingleCall \/ CikSingleCall \/ NameSingleCall \/ TickerSingleAgain

SpecSingle == InitSingle /\ [][NextSingle]_vars

-----------------------------------------------------------------------------
(* Filer-number normalization over generated identifiers: SpecNormalize *)

MaxCikLen == 3
MaxCikInt == 9

\* Raw identifiers: every string of at most MaxCikLen characters over a zero,
\* a non-zero digit, a letter, a blank and a non-decimal digit; the integers
\* from -1 to MaxCikInt; None.
CikChars == {"0", "5", "x", " ", SuperscriptTwo}
RawCiks ==
    {StrV(s) : s \in SeqsUpTo(CikChars, MaxCikLen)}
    \cup {IntV(n) : n \in (-1)..MaxCikInt}
    \cup {NoneV}

NormalizeCalls == {"normalize_cik", "cik_single"} \X {<<c>> : c \in RawCiks}

InitNormalize == InitLoaded({SnapA, SnapB}, NormalizeCalls)

\* utils.normalize_cik is applied to the pending identifier.
NormalizeCikCall ==
    /\ pc.at = "calling" /\ pc.op = "normalize_cik"
    /\ CallReturns("normalize_cik",
          [w |-> World,
           exc |-> IF normalize_cik(pc.args[1]) = Raised THEN "ValueError" ELSE "none",
           ret |-> normalize_cik(pc.args[1])])

NextNormalize == NormalizeCikCall \/ CikSingleCall

SpecNormalize == InitNormalize /\ [][NextNormalize]_vars

-----------------------------------------------------------------------------
(* Smart lookups against a loaded cache: SpecSmart *)

\* A digit string that is the filer number of one company, one that is the
\* ticker of the first and the name of the second company, and one that is
\* the ticker of the second.
SnapN == << Desc(StrV(<<"3">>), <<"1","1">>, <<"1","2">>),
            Desc(StrV(<<"4">>), <<"1","2">>, <<"1","1"," ","x">>) >>

SmartIdentifiers ==
    { NoneV, OtherV, IntV(5), IntV(3), IntV(9), IntV(0) }
    \cup { StrV(s) : s \in { sAAPL, <<" ","a","a","p","l"," ">>, nApple,
                             <<"a","p","p","l","e">>, <<"I","n","c",".">>,
                             <<"5">>, <<"0","0","0","5">>, <<" ","5"," ">>, <<"9">>, <<"0">>,
                             <<"3">>, <<"1","1">>, <<"1","2">>, <<"x">>,
                             <<>>, <<" ">>, <<"Z","Z">>, <<SuperscriptTwo>> } }

SmartCalls == {"smart"} \X {<<i>> : i \in SmartIdentifiers}

InitSmart == InitLoaded({SnapA, SnapB, SnapS, SnapN}, SmartCalls)

SmartCall ==
    /\ pc.at = "calling" /\ pc.op = "smart"
    /\ CallReturns("smart", get_company(World, pc.env, pc.args[1]))

NextSmart == SmartCall

SpecSmart == InitSmart /\ [][NextSmart]_vars

-----------------------------------------------------------------------------
(* Callers passing through ensure_data_loaded side by side: SpecRefresh *)

\* The threads of the process; pc maps each to its position.
Callers == {"c1", "c2"}

\* ensure_data_loaded, lines 124-128: the staleness test and, when a load is
\* due, the file-cache load; a caller that finds no usable file cache enters
\* update_data_impl. The module takes no lock anywhere.
EnsureCheck(t) ==
    /\ pc[t] = Idle
    /\ IF ~is_cache_expired(last_update, now)
       THEN /\ result' = [op |-> "ensure", caller |-> t, exc |-> "none"]
            /\ UNCHANGED <<memory_cache, last_update, data_file, db, user_email, now, pc, lru_cache>>
       ELSE IF load_from_cache(World).exists /\ load_from_cache(World).data # <<>>
       THEN /\ InstallWorld(ensure_after_cache(World, [net |-> "fail", snap |-> SnapA,
                                                       db_fails |-> FALSE],
                                               load_from_cache(World)).w)
            /\ result' = [op |-> "ensure", caller |-> t, exc |-> "none"]
            /\ UNCHANGED pc
       ELSE /\ pc' = [pc EXCEPT ![t] = [at |-> "update_data"]]
            /\ result' = [op |-> "refresh_started", caller |-> t]
            /\ UNCHANGED <<memory_cache, last_update, data_file, db, user_email, now, lru_cache>>

\* update_data_impl, line 149: download_sec_data returns or raises.
RefreshDownload(t) ==
    /\ pc[t] = [at |-> "update_data"]
    /\ \E env \in Envs :
          LET d == download_sec_data(World, env)
          IN /\ InstallWorld(d.w)
             /\ IF d.exc = "none"
                THEN /\ pc' = [pc EXCEPT ![t] = [at |-> "loading", data |-> d.data, env |-> env]]
                     /\ result' = [op |-> "refresh_downloaded", caller |-> t]
                ELSE /\ pc' = [pc EXCEPT ![t] = Idle]
                     /\ result' = [op |-> "ensure", caller |-> t,
                                   exc |-> ensure_after_update(update_after_download(d, env)).exc]

\* update_data_impl, lines 150-152: both indexes are rebuilt from the
\* downloaded data and ensure_data_loaded returns or raises.
RefreshLoad(t) ==
    /\ pc[t].at = "loading"
    /\ LET u == update_after_memory(load_data_to_db(load_data_to_memory(World, pc[t].data),
                                                    pc[t].data, pc[t].env))
       IN /\ InstallWorld(u.w)
          /\ result' = [op |-> "ensure", caller |-> t, exc |-> ensure_after_update(u).exc]
    /\ pc' = [pc EXCEPT ![t] = Idle]

InitRefresh ==
    /\ memory_cache = Fresh.mc
    /\ last_update = Fresh.lu
    /\ data_file = Fresh.file
    /\ db = Fresh.db
    /\ user_email = TRUE
    /\ now = Fresh.now
    /\ result = [op |-> "import"]
    /\ pc = [t \in Callers |-> Idle]
    /\ lru_cache = NoMemo

NextRefresh ==
    \/ Tick
    \/ \E t \in Callers : EnsureCheck(t)
    \/ \E t \in Callers : RefreshDownload(t)
    \/ \E t \in Callers : RefreshLoad(t)

SpecRefresh == InitRefresh /\ [][NextRefresh]_vars

-----------------------------------------------------------------------------
(* Index construction from generated snapshots: SpecIndex *)

MaxSnapLen == 2

\* Descriptors whose three fields are all usable: a filer number as a digit
\* string, zero-padded, or as an integer; tickers that differ, or differ only
\* in case; names that differ only in case.
GoodDescs ==
    { Desc(c, t, n) : c \in {StrV(<<"5">>), StrV(<<"0","5">>), IntV(7)},
                      t \in {<<"A">>, <<"a">>, <<"B">>},
                      n \in {<<"N">>, <<"n">>} }

\* Descriptors with one field that is missing, empty, blank or malformed.
OddDescs ==
    { Desc(c, <<"C">>, <<"M">>) : c \in {StrV(<<"x">>), StrV(<<>>), IntV(0), NoneV} }
    \cup { Desc(StrV(<<"5">>), t, <<"M">>) : t \in {<<>>, <<" ">>} }
    \cup { Desc(StrV(<<"5">>), <<"C">>, n) : n \in {<<>>, <<" ">>} }

\* The snapshots of at most MaxSnapLen descriptors.
GenSnaps == SeqsUpTo(GoodDescs \cup OddDescs, MaxSnapLen)

\* A process with SnapA loaded, about to refresh while the endpoint serves a
\* generated snapshot.
InitIndex ==
    /\ memory_cache = LoadedWorld(SnapA).mc
    /\ last_update = LoadedWorld(SnapA).lu
    /\ data_file = LoadedWorld(SnapA).file
    /\ db = LoadedWorld(SnapA).db
    /\ user_email = TRUE
    /\ now = LoadedWorld(SnapA).now
    /\ result = [op |-> "import"]
    /\ lru_cache = NoMemo
    /\ \E snap \in GenSnaps, db_fails \in BOOLEAN :
          pc = Calling("update_data", <<>>,
                       [net |-> "ok", snap |-> snap, db_fails |-> db_fails])

UpdateCall ==
    /\ pc.at = "calling" /\ pc.op = "update_data"
    /\ CallReturns("update_data", update_data_impl(World, pc.env))

\* clear_cache after the refresh.
ClearAfter == pc = Idle /\ ClearCache

NextIndex == UpdateCall \/ ClearAfter

SpecIndex == InitIndex /\ [][NextIndex]_vars

-----------------------------------------------------------------------------
(* Resolving the own fields of a loaded record: SpecRound *)

MaxRoundLen == 2

\* Descriptors the loader indexes: tickers that differ, differ only in case or
\* end in a blank; names that differ only in case or end in a blank.
RoundDescs ==
    { Desc(c, t, n) : c \in {StrV(<<"0","5">>), IntV(7)},
                      t \in {<<"A">>, <<"a">>, <<"B"," ">>},
                      n \in {<<"N">>, <<"n">>, <<"N"," ">>} }

RoundSnaps == SeqsUpTo(RoundDescs, MaxRoundLen)

\* The three resolutions of the own fields of every record of an index.
RoundCalls(mc) ==
    UNION { { <<"cik_single", <<IntV(mc.companies[i].v.cik)>>>>,
              <<"name_single", <<mc.companies[i].v.name, FALSE>>>>,
              <<"ticker_single", <<mc.companies[i].v.ticker>>>> } :
            i \in 1..Len(mc.companies) }

\* A loaded cache and one pending resolution of a field of one of its records.
InitRound == \E snap \in RoundSnaps : InitLoaded({snap}, RoundCalls(LoadedWorld(snap).mc))

NextRound == TickerSingleCall \/ CikSingleCall \/ NameSingleCall

SpecRound == InitRound /\ [][NextRound]_vars

-----------------------------------------------------------------------------
(* A ticker lookup running beside refreshes and clears: SpecConc *)

\* get_company_by_ticker_single reads the global _memory_cache twice: once for
\* by_ticker (line 172) and once for companies (line 177). Another thread can
\* rebind the global between the two reads.
ConcTickers == {sAAPL, sGOOG}

LookupDone(ticker, first, second, exc, ret) ==
    [op |-> "ticker_lookup", args |-> <<ticker>>, first |-> first, second |-> second,
     exc |-> exc, ret |-> ret]

\* Lines 164-174: the input check, ensure_data_loaded and the by_ticker read.
LookupStart ==
    /\ pc = Idle
    /\ \E env \in ReadEnvs, ticker \in ConcTickers :
          LET e == ensure_data_loaded(World, env)
              company_id == DictGet(e.w.mc.by_ticker, Upper(Strip(ticker)), None)
          IN /\ InstallWorld(e.w)
             /\ IF e.exc # "none"
                THEN /\ result' = LookupDone(ticker, e.w.mc, e.w.mc, e.exc, NoRet)
                     /\ pc' = Idle
                ELSE IF company_id = None
                THEN /\ result' = LookupDone(ticker, e.w.mc, e.w.mc, "none",
                                             Err("Ticker not found", ticker, "NOT_FOUND"))
                     /\ pc' = Idle
                ELSE /\ result' = [op |-> "ticker_lookup_started"]
                     /\ pc' = [at |-> "read_store", ticker |-> ticker,
                               company_id |-> company_id, first |-> e.w.mc]

\* Lines 175-179: the companies read, on whatever _memory_cache is bound to now.
LookupFinish ==
    /\ pc.at = "read_store"
    /\ result' =
          IF DictHas(memory_cache.companies, pc.company_id)
          THEN LookupDone(pc.ticker, pc.first, memory_cache, "none",
                          Ok(DictGet(memory_cache.companies, pc.company_id, None)))
          ELSE LookupDone(pc.ticker, pc.first, memory_cache, "KeyError", NoRet)
    /\ pc' = Idle
    /\ UNCHANGED <<memory_cache, last_update, data_file, db, user_email, now, lru_cache>>

NextConc ==
    \/ LookupStart
    \/ LookupFinish
    \/ UpdateData
    \/ ClearCache
    \/ SetUserEmail
    \/ Tick

SpecConc == Init /\ [][NextConc]_vars

-----------------------------------------------------------------------------
(* Cache lifecycle properties, checked under Spec and SpecStale *)

\* The calls that pass through ensure_data_loaded.
ReaderOps == {"ticker_single", "cik_single", "name_single",
              "tickers_batch", "ciks_batch", "names_batch"}

\* STALE: a snapshot is loaded and is older than the expiry horizon.
Stale == last_update # 0 /\ is_cache_expired(last_update, now)

\* load_from_cache gives nothing usable, so a due (re)load goes to the fetcher.
NoFileCache == ~(load_from_cache(World).exists /\ load_from_cache(World).data # <<>>)

\* The call with these arguments gets past its input checks to ensure_data_loaded.
ReachesLoad(op, args) ==
    CASE op = "ticker_single" -> Strip(args[1]) # <<>>
      [] op = "cik_single" -> normalize_cik(args[1]) # Invalid
      [] op = "name_single" -> Strip(args[1]) # <<>>
      [] op = "cache_info" -> TRUE
      [] op = "search" -> TRUE
      [] op = "name_search" -> Strip(args[1]) # <<>>
      [] OTHER -> args[1] # <<>>

\* C7 as stated: from a STALE snapshot no reader is ever handed the failure of
\* the refresh it triggered (its call returns, answered from the snapshot that
\* was loaded), and the index never goes back to EMPTY unless the cache is
\* cleared.
C7_StaleReadersNeverFail ==
    [][(result'.op \in ReaderOps /\ Stale)
          => (/\ result'.exc # "RuntimeError"
              /\ memory_cache' # EmptyCache
              /\ last_update' # 0)]_vars

\* C8 as stated: update_data either returns True with the memory index and the
\* persistent index both built from the fetched snapshot, or fails and leaves
\* the memory index, its timestamp and the persistent index's rows as they were.
C8_RefreshAllOrNothing ==
    [][result'.op = "update_data"
          => IF result'.exc = "none" /\ result'.ret = TRUE
             THEN /\ memory_cache' = BuildIndex(data_file'.data)
                  /\ db'.rows = DbRows(data_file'.data)
             ELSE /\ memory_cache' = memory_cache
                  /\ last_update' = last_update
                  /\ db'.rows = db.rows]_vars

\* C10: with no caller identity configured, every call that has to go to the
\* fetcher (update_data always; a reader when a (re)load is due and there is
\* no usable file cache) ends with the fetcher's ValueError, not with a result
\* and not with a RuntimeError, and leaves the index, its timestamp, the file
\* and the persistent index untouched; and a ValueError never comes from
\* anywhere else.
C10_ConfigErrorPropagates ==
    [][/\ (/\ ~user_email
           /\ \/ result'.op = "update_data"
              \/ /\ result'.op \in ReaderOps
                 /\ ReachesLoad(result'.op, result'.args)
                 /\ is_cache_expired(last_update, now)
                 /\ NoFileCache)
          => (/\ result'.exc = "ValueError"
              /\ UNCHANGED <<memory_cache, last_update, data_file, db>>)
       /\ (result'.op \in ReaderOps \cup {"update_data"} /\ result'.exc = "ValueError")
          => (~user_email /\ UNCHANGED <<memory_cache, last_update>>)]_vars

\* A reader was handed the ValueError while a stale snapshot stayed loaded.
C10_Witness ==
    /\ result.op \in ReaderOps
    /\ result.exc = "ValueError"
    /\ Stale
    /\ memory_cache # EmptyCache

\* The age, in hours, of the loaded snapshot by its recorded timestamp.
AgeHours == (now - last_update) * HoursPerTick

\* C11: staleness is a function of the recorded load timestamp and the current
\* time only. A call that passes through ensure_data_loaded treats a snapshot
\* younger than the horizon (a timestamp in the future included) as current
\* and touches nothing; with a snapshot older than the horizon, or with no
\* timestamp, it attempts a (re)load, which either fails the call or leaves a
\* timestamp inside the horizon; this holds whether the timestamp came from a
\* fetch or from the file cache. get_cache_info reports the same verdict for
\* the timestamp it returns.
C11_StalenessFromTimestamp ==
    [][/\ (/\ result'.op \in ReaderOps \cup {"cache_info"}
           /\ ReachesLoad(result'.op, result'.args))
          => /\ (last_update # 0 /\ AgeHours < CACHE_EXPIRY_HOURS)
                   => (/\ UNCHANGED <<memory_cache, last_update, data_file, db>>
                       /\ result'.exc \notin {"RuntimeError", "ValueError"})
             /\ (last_update = 0 \/ AgeHours > CACHE_EXPIRY_HOURS)
                   => \/ result'.exc \in {"RuntimeError", "ValueError"}
                      \/ /\ last_update' # 0
                         /\ last_update' # last_update
                         /\ (now - last_update') * HoursPerTick <= CACHE_EXPIRY_HOURS
       /\ (result'.op = "cache_info" /\ result'.exc = "none")
          => /\ result'.ret.last_update = last_update'
             /\ (last_update' = 0) => result'.ret.cache_expired
             /\ (last_update' # 0 /\ (now' - last_update') * HoursPerTick < CACHE_EXPIRY_HOURS)
                   => ~result'.ret.cache_expired
             /\ (now' - last_update') * HoursPerTick > CACHE_EXPIRY_HOURS
                   => result'.ret.cache_expired]_vars

\* A snapshot loaded from the file cache (no caller identity has been set
\* since the import, so nothing was fetched) carries the file's time; the
\* clock was then set back and a later read treated the snapshot as current.
C11_Witness ==
    /\ result.op \in ReaderOps
    /\ result.exc = "none"
    /\ ~user_email
    /\ last_update = data_file.mtime
    /\ last_update > now

-----------------------------------------------------------------------------
(* Batch properties, checked under SpecBatch *)

BatchOps == {"tickers_batch", "ciks_batch", "names_batch"}

\* The last call was a batch call and returned a mapping.
BatchReturned == result.op \in BatchOps /\ result.exc = "none"

\* The records of the loaded index.
Records == {memory_cache.companies[i].v : i \in 1..Len(memory_cache.companies)}

\* The caller-visible outcome type, and the outcome without its message text.
Verdict(o) == IF o.success THEN "success" ELSE o.error_code
Outcome(o) == IF o.success THEN <<"success", o.data>> ELSE <<o.error_code>>

\* The raw identifier passes normalization, stated on the raw value: a ticker
\* or a name has a character that is not a blank; a filer number is an integer,
\* or a string of digits that are not all zeros.
WellFormed(op, k) ==
    IF op = "ciks_batch"
    THEN \/ k.t = "int"
         \/ /\ k.t = "str"
            /\ \A i \in 1..Len(k.v) : k.v[i] \in SeqToSet(DigitChars)
            /\ \E i \in 1..Len(k.v) : k.v[i] # "0"
    ELSE \E i \in 1..Len(k) : k[i] # " "

\* The records the identifier names exactly.
Named(op, k) ==
    CASE op = "tickers_batch" -> {r \in Records : r.ticker = Upper(Strip(k))}
      [] op = "ciks_batch" -> {r \in Records : r.cik = normalize_cik(k).v}
      [] OTHER -> {r \in Records : Lower(r.name) = Lower(Strip(k))}

\* C3 as stated: the keys of the mapping a batch call returns are exactly the
\* raw identifiers it was given.
C3_KeysAreRawIdentifiers ==
    BatchReturned => DOMAIN result.ret = SeqToSet(result.args[1])

\* C4: every outcome in a batch mapping is {success, data} or
\* {success, error, error_code} with a code of the two; the code is
\* INVALID_INPUT exactly for a key that fails normalization; a well-formed key
\* succeeds with the record(s) it names; for tickers, filer numbers and exact
\* names it is NOT_FOUND exactly when no record of the corpus carries it, and a
\* fuzzy name is NOT_FOUND only if no record carries it as its exact name, and
\* succeeds only with a record whose name contains its first word.
C4_OutcomesClassified ==
    BatchReturned =>
        \A k \in DOMAIN result.ret :
            LET o == result.ret[k]
                op == result.op
                exact == op # "names_batch" \/ ~result.args[2]
            IN /\ IF o.success THEN DOMAIN o = {"success", "data"}
                  ELSE /\ DOMAIN o = {"success", "error", "error_code"}
                       /\ o.error_code \in {"INVALID_INPUT", "NOT_FOUND"}
               /\ (Verdict(o) = "INVALID_INPUT") <=> ~WellFormed(op, k)
               /\ (WellFormed(op, k) /\ Named(op, k) # {}) => o.success
               /\ (o.success /\ exact) => Named(op, k) # {}
               /\ o.success =>
                    CASE op = "ciks_batch" -> SeqToSet(o.data) = Named(op, k)
                      [] exact -> o.data \in Named(op, k)
                      [] OTHER -> /\ o.data \in Records
                                  /\ IsSubstring(Lower(Split(k)[1]), Lower(o.data.name))

\* One filer-number batch held an un-normalizable key and a key with records.
C4_Witness ==
    /\ BatchReturned
    /\ result.op = "ciks_batch"
    /\ \E k1, k2 \in DOMAIN result.ret :
          /\ Verdict(result.ret[k1]) = "INVALID_INPUT"
          /\ Verdict(result.ret[k2]) = "success"

\* What the single-identifier resolver answers for one key of a batch.
SingleFor(op, k, fuzzy) ==
    CASE op = "tickers_batch" -> get_company_by_ticker_single(World, result.env, k).ret
      [] op = "ciks_batch" -> get_company_by_cik_single(World, result.env, k).ret
      [] OTHER -> get_company_by_name_single(World, result.env, k, fuzzy).ret

\* C5 as stated: when the bulk query fails the batch returns a mapping over
\* all the raw identifiers, each with the outcome of the single resolver.
C5_FallbackComplete ==
    (BatchReturned /\ result.env.db_fails) =>
        /\ DOMAIN result.ret = SeqToSet(result.args[1])
        /\ \A k \in SeqToSet(result.args[1]) :
              Outcome(result.ret[k]) =
                  Outcome(SingleFor(result.op, k,
                                    result.op = "names_batch" /\ result.args[2]))

\* The same batch call answered with the bulk query in the other condition.
OtherPath ==
    LET env == [result.env EXCEPT !.db_fails = ~@]
    IN CASE result.op = "tickers_batch" ->
                get_companies_by_tickers_batch(World, env, result.args[1]).ret
         [] result.op = "ciks_batch" ->
                get_companies_by_ciks_batch(World, env, result.args[1]).ret
         [] OTHER ->
                get_companies_by_names_batch(World, env, result.args[1], result.args[2]).ret

\* The memory index and the persistent index hold the snapshot on disk.
SameCorpus ==
    /\ data_file.exists
    /\ memory_cache = BuildIndex(data_file.data)
    /\ db.exists /\ db.rows = DbRows(data_file.data)

\* C6 as stated: with both indexes built from one snapshot, a batch gets the
\* same verdict for every key from the bulk query and from the fallback.
C6_FallbackSameVerdict ==
    (BatchReturned /\ SameCorpus) =>
        /\ DOMAIN OtherPath = DOMAIN result.ret
        /\ \A k \in DOMAIN result.ret : Verdict(OtherPath[k]) = Verdict(result.ret[k])

\* The records the identifier names exactly, in insertion order.
NamedInOrder(op, k) ==
    Select(DictValSeq(memory_cache.companies),
           [i \in 1..Len(memory_cache.companies) |-> memory_cache.companies[i].v \in Named(op, k)])

\* C20 as stated: for a key of a batch that names several records, a ticker or
\* name batch reports the first of them in insertion order, which is the record
\* the single resolver returns for the key, on the bulk path and on the
\* fallback path alike; a filer-number batch reports all of them.
C20_BatchPicksFirstInserted ==
    BatchReturned =>
        \A k \in DOMAIN result.ret \cap SeqToSet(result.args[1]) :
            (WellFormed(result.op, k) /\ Len(NamedInOrder(result.op, k)) >= 2)
                => /\ result.ret[k].success
                   /\ IF result.op = "ciks_batch"
                      THEN /\ Len(result.ret[k].data) = Len(NamedInOrder(result.op, k))
                           /\ SeqToSet(result.ret[k].data) = Named(result.op, k)
                      ELSE /\ result.ret[k].data = NamedInOrder(result.op, k)[1]
                           /\ result.ret[k].data =
                                  SingleFor(result.op, k,
                                            result.op = "names_batch" /\ result.args[2]).data

\* The bulk queries the pending batch call sends to the persistent index.
BatchDbCalls ==
    CASE pc.op = "tickers_batch" -> tickers_batch_db_calls(World, pc.env, pc.args[1])
      [] pc.op = "ciks_batch" -> ciks_batch_db_calls(World, pc.env, pc.args[1])
      [] OTHER -> names_batch_db_calls(World, pc.env, pc.args[1])

\* C21: a batch call given an empty collection returns the empty mapping,
\* sends no query to the persistent index, and leaves the index, the cache
\* file and the in-memory snapshot as they were.
C21_EmptyBatchShortCircuit ==
    [][(pc.at = "calling" /\ pc.op \in BatchOps /\ pc.args[1] = <<>>)
          => /\ result'.exc = "none"
             /\ result'.ret = EmptyMap
             /\ BatchDbCalls = <<>>
             /\ UNCHANGED <<memory_cache, last_update, data_file, db>>]_vars

C21_Witness ==
    /\ BatchReturned
    /\ result.args[1] = <<>>
    /\ result.env.db_fails
    /\ result.ret = EmptyMap

\* The raw identifier passes the coordinator's validity test.
ValidKey(op, k) ==
    IF op = "ciks_batch" THEN normalize_cik(k) \notin {Invalid, Raised}
    ELSE Strip(k) # <<>>

\* The key the coordinator sends to the bulk query for a valid raw identifier.
NormalizedKey(op, k) ==
    CASE op = "tickers_batch" -> Upper(Strip(k))
      [] op = "ciks_batch" -> normalize_cik(k).v
      [] OTHER -> k

\* The list the persistent index holds for a normalized key in the bulk
\* query of the last batch call.
BulkList(op, n) ==
    CASE op = "tickers_batch" -> get_companies_by_tickers_db(World, result.env, <<n>>).ret[n]
      [] op = "ciks_batch" -> get_companies_by_ciks_db(World, result.env, <<n>>).ret[n]
      [] OTHER -> get_companies_by_company_names_db(World, result.env, <<n>>,
                                                    result.args[2]).ret[n]

\* The last call was a batch call answered from the bulk query.
BulkAnswered == BatchReturned /\ result.args[1] # <<>> /\ ~DbUnavailable(World, result.env)

\* C29: in a batch of any kind answered from the bulk query, every valid
\* normalized key for which the persistent index holds no record is in the
\* output, under a raw identifier that spells it, as NOT_FOUND, and no raw
\* identifier spelling it reports anything else.
C29_AbsentKeysNotFound ==
    BulkAnswered =>
        \A k \in SeqToSet(result.args[1]) :
            (ValidKey(result.op, k) /\ BulkList(result.op, NormalizedKey(result.op, k)) = <<>>)
                => LET same == {k2 \in SeqToSet(result.args[1]) :
                                   /\ ValidKey(result.op, k2)
                                   /\ NormalizedKey(result.op, k2) = NormalizedKey(result.op, k)}
                   IN /\ same \cap DOMAIN result.ret # {}
                      /\ \A k2 \in same \cap DOMAIN result.ret :
                            Verdict(result.ret[k2]) = "NOT_FOUND"

\* A ticker batch answered from the bulk query held a key with records and a
\* key with none.
C29_Witness ==
    /\ BulkAnswered
    /\ result.op = "tickers_batch"
    /\ \E k1, k2 \in DOMAIN result.ret :
          /\ Verdict(result.ret[k1]) = "success"
          /\ Verdict(result.ret[k2]) = "NOT_FOUND"
          /\ BulkList(result.op, NormalizedKey(result.op, k2)) = <<>>

-----------------------------------------------------------------------------
(* Fuzzy name resolution properties, checked under SpecName *)

\* The ids of the loaded records, and a record's lower-cased name.
Ids == DictKeys(memory_cache.companies)
Record(id) == DictGet(memory_cache.companies, id, None)
LowerName(id) == Lower(Record(id).name)

\* The words of the last name query, its k-word prefix as a lower-case
\* candidate, and the records whose name contains that candidate.
QueryWords == Split(Strip(result.args[1]))
Candidate(k) == Lower(Join(SubSeq(QueryWords, 1, k)))
Matching(k) == {id \in Ids : IsSubstring(Candidate(k), LowerName(id))}

\* The last call was a fuzzy name resolution of a non-blank query that is no
\* record's exact name.
FuzzyCase ==
    /\ result.op = "name_single" /\ result.exc = "none"
    /\ result.args[2]
    /\ QueryWords # <<>>
    /\ \A id \in Ids : LowerName(id) # Lower(Strip(result.args[1]))

\* C1: the answer is decided by the longest word-prefix that matches any
\* record: that prefix matching one record gives success with that record,
\* matching several gives NOT_FOUND, and no prefix matching gives NOT_FOUND.
C1_LongestMatchingPrefixDecides ==
    FuzzyCase =>
        LET hits == {k \in 1..Len(QueryWords) : Matching(k) # {}}
        IN IF hits = {} THEN Verdict(result.ret) = "NOT_FOUND"
           ELSE LET first == CHOOSE k \in hits : \A j \in hits : j <= k
                IN IF Cardinality(Matching(first)) = 1
                   THEN result.ret = Ok(Record(CHOOSE id \in Matching(first) : TRUE))
                   ELSE Verdict(result.ret) = "NOT_FOUND"

\* A query of two words or more succeeded with a shortened candidate.
C1_Witness ==
    /\ FuzzyCase
    /\ result.ret.success
    /\ Len(QueryWords) >= 2
    /\ Matching(Len(QueryWords)) = {}

\* C2: a record is returned exactly when some word-prefix of the query occurs
\* in the name of exactly one record, and it is that record; on the corpus
\* {Apple Inc., Alphabet Inc.}: "Apple" gives Apple Inc., "Inc." gives
\* NOT_FOUND, "Alphabet Inc." gives Alphabet Inc.
C2_UniqueMatchOrRefusal ==
    /\ FuzzyCase =>
          /\ result.ret.success <=>
                \E k \in 1..Len(QueryWords) : Cardinality(Matching(k)) = 1
          /\ result.ret.success =>
                \A k \in 1..Len(QueryWords) :
                    Cardinality(Matching(k)) = 1 => Matching(k) = {id \in Ids : Record(id) = result.ret.data}
    /\ (/\ result.op = "name_single" /\ result.exc = "none" /\ result.args[2]
        /\ {Record(id).name : id \in Ids} = {nApple, nAlphabet} /\ Cardinality(Ids) = 2)
          => /\ result.args[1] = <<"A","p","p","l","e">>
                  => (result.ret.success /\ result.ret.data.name = nApple)
             /\ result.args[1] = <<"I","n","c",".">> => Verdict(result.ret) = "NOT_FOUND"
             /\ result.args[1] = nAlphabet
                  => (result.ret.success /\ result.ret.data.name = nAlphabet)

\* A query whose candidate occurs in two records' names was refused.
C2_Witness ==
    /\ FuzzyCase
    /\ ~result.ret.success
    /\ \E k \in 1..Len(QueryWords) : Cardinality(Matching(k)) >= 2

\* The records the scan of get_company_by_name_single collects for the k-word
\* candidate of the last name query.
MatchedBy(k) == SeqToSet(matching_companies(memory_cache, Candidate(k)))

\* C31: shortening is monotone. For the words w1..wk (k >= 2) of a name query
\* the records matched by the candidate of w1..w(k-1) include those matched by
\* the candidate of w1..wk, so below a candidate that matches several records
\* no candidate matches exactly one, and a fuzzy resolution refused at an
\* ambiguous candidate has no candidate with a unique match.
C31_ShorteningMonotone ==
    (result.op = "name_single" /\ result.exc = "none") =>
        /\ \A k \in 2..Len(QueryWords) :
              /\ MatchedBy(k) \subseteq MatchedBy(k - 1)
              /\ Len(matching_companies(memory_cache, Candidate(k))) > 1
                    => \A j \in 1..(k - 1) :
                          Len(matching_companies(memory_cache, Candidate(j))) > 1
        /\ (FuzzyCase /\ ~result.ret.success)
              => \A k \in 1..Len(QueryWords) :
                    Len(matching_companies(memory_cache, Candidate(k))) # 1

\* A fuzzy resolution of a two-word query whose whole candidate matched one
\* record of two and whose first word matched both.
C31_Witness ==
    /\ FuzzyCase
    /\ Len(QueryWords) = 2
    /\ Cardinality(MatchedBy(2)) = 1
    /\ Cardinality(MatchedBy(1)) = 2
    /\ result.ret.success

\* The last call was a name resolution of a non-blank query that returned.
NameResolved ==
    /\ result.op = "name_single" /\ result.exc = "none"
    /\ QueryWords # <<>>

\* Some record's name equals the last name query up to case.
ExactHit == \E id \in Ids : LowerName(id) = Lower(Strip(result.args[1]))

\* The substring scans of the last name resolution, and its answer with the
\* fuzzy flag turned over. The cache was current, so the call left the process
\* as it found it.
ScansDone == name_single_scans(World, result.env, result.args[1], result.args[2])
OtherMode ==
    get_company_by_name_single(World, result.env, result.args[1], ~result.args[2]).ret

\* C32: the fuzzy tier is entered only when the exact case-insensitive lookup
\* has no hit. A name resolution with an exact hit returns the same record in
\* fuzzy and in exact mode and runs no substring scan of the index; a scan runs
\* exactly for a fuzzy call without an exact hit.
C32_FuzzyOnlyWithoutExactHit ==
    NameResolved =>
        /\ ExactHit => /\ result.ret.success
                       /\ result.ret = OtherMode
                       /\ ScansDone = <<>>
        /\ (ScansDone # <<>>) <=> (result.args[2] /\ ~ExactHit)

\* A fuzzy resolution with an exact hit whose query also occurs in the name of
\* another record.
C32_Witness ==
    /\ NameResolved /\ ExactHit
    /\ result.args[2]
    /\ Cardinality(Matching(Len(QueryWords))) >= 2
    /\ result.ret.success

-----------------------------------------------------------------------------
(* Concurrency property, checked under SpecConc *)

\* The answer of a ticker lookup made entirely on the cache structure mc.
AnswerOn(mc, ticker) == ticker_loaded([w |-> [mc |-> mc], exc |-> "none"], ticker).ret

\* C9 as stated: a finished ticker lookup never failed on a missing id, and
\* its answer is the answer on the structure it read first or on the one it
\* read second.
C9_LookupSeesOneSnapshot ==
    (result.op = "ticker_lookup" /\ result.exc \in {"none", "KeyError"}) =>
        /\ result.exc = "none"
        /\ \/ result.ret = AnswerOn(result.first, result.args[1])
           \/ result.ret = AnswerOn(result.second, result.args[1])

-----------------------------------------------------------------------------
(* Search properties, checked under SpecSearch *)

SearchOps == {"search", "name_search"}

\* The last call was a search and returned a list.
SearchReturned == result.op \in SearchOps /\ result.exc = "none"

\* C12 as stated: a search with limit 0 or a negative limit returns the empty
\* list, for every corpus, every query and both values of fuzzy.
C12_NonPositiveLimitEmpty ==
    (SearchReturned /\ result.args[2] <= 0) => result.ret = <<>>

\* C13 as stated: a search result never holds two entries with the same
\* (filer number, ticker) pair, whichever tiers contributed them.
C13_NoDuplicatePairs ==
    SearchReturned =>
        \A i, j \in 1..Len(result.ret) :
            (result.ret[i].cik = result.ret[j].cik /\ result.ret[i].ticker = result.ret[j].ticker)
                => i = j

\* The trimmed query of the last search, its limit and its fuzzy flag.
Query == Strip(result.args[1])
Limit == result.args[2]
Fuzzy == result.args[3]

\* The record the query names as a ticker, if any, as a list.
TickerHit ==
    IF DictHas(memory_cache.by_ticker, Upper(Query))
    THEN <<DictGet(memory_cache.companies, DictGet(memory_cache.by_ticker, Upper(Query), None), None)>>
    ELSE <<>>

\* The records whose name is the query up to case, in insertion order, the
\* ticker's own record left out.
NameHits ==
    Select(DictValSeq(memory_cache.companies),
           [i \in 1..Len(memory_cache.companies) |->
               /\ Lower(memory_cache.companies[i].v.name) = Lower(Query)
               /\ ~(/\ DictHas(memory_cache.by_ticker, Upper(Query))
                    /\ memory_cache.companies[i].k
                           = DictGet(memory_cache.by_ticker, Upper(Query), None))])

\* What the lower tier returned: the persistent index's answer or, when it
\* raised, the in-memory scan's.
LowerTier ==
    IF search_companies_db(World, result.env, Query, Limit, Fuzzy).exc = "none"
    THEN search_companies_db(World, result.env, Query, Limit, Fuzzy).ret
    ELSE search_companies_memory(memory_cache, Query, Limit, Fuzzy)

\* The elements of t occur in l in the same order.
RECURSIVE InOrderOf(_, _)
InOrderOf(t, l) ==
    IF t = <<>> THEN TRUE
    ELSE IF l = <<>> THEN FALSE
    ELSE IF t[1] = l[1] THEN InOrderOf(Tail(t), Tail(l))
    ELSE InOrderOf(t, Tail(l))

\* C14: in a search_companies result with limit >= 1, the record of the
\* ticker the query names (if any) is element 0; the exact name hits follow in
\* the index's insertion order; everything after the exact hits (as far as
\* limit allows) comes from the lower tier, in the order it returned them.
C14_SearchRanking ==
    (result.op = "search" /\ result.exc = "none" /\ Query # <<>> /\ Limit >= 1)
        => /\ Len(result.ret) <= Limit
           /\ TickerHit # <<>> => (result.ret # <<>> /\ result.ret[1] = TickerHit[1])
           /\ PySlice(result.ret, Len(TickerHit \o NameHits)) = PySlice(TickerHit \o NameHits, Limit)
           /\ InOrderOf(SubSeq(result.ret, Len(PySlice(TickerHit \o NameHits, Limit)) + 1,
                               Len(result.ret)),
                        LowerTier)

\* A result made of the ticker's record, two exact name hits and a record only
\* the lower tier found.
C14_Witness ==
    /\ result.op = "search" /\ result.exc = "none" /\ Query # <<>>
    /\ TickerHit # <<>>
    /\ Len(NameHits) >= 2
    /\ Len(result.ret) > Len(TickerHit \o NameHits)
    /\ result.ret[Len(result.ret)] \in SeqToSet(LowerTier)

\* The persistent index was consulted by the last search_companies call and
\* raised.
IndexRaised ==
    /\ result.op = "search" /\ Query # <<>>
    /\ Len(TickerHit \o NameHits) < Limit
    /\ search_companies_db(World, result.env, Query, Limit, Fuzzy).exc # "none"

\* The records a substring scan finds: those of the by_ticker entries whose
\* ticker contains the query, then those of the by_name entries whose name
\* contains it, both in index order and without regard to case.
TickerScan ==
    CompaniesOf(memory_cache,
                DictValSeq(Select(memory_cache.by_ticker,
                                  [i \in 1..Len(memory_cache.by_ticker) |->
                                      IsSubstring(Lower(Query), Lower(memory_cache.by_ticker[i].k))])))
NameScan ==
    CompaniesOf(memory_cache,
                DictValSeq(Select(NamePairs(memory_cache.by_name, 1),
                                  [i \in 1..Len(NamePairs(memory_cache.by_name, 1)) |->
                                      IsSubstring(Lower(Query),
                                                  NamePairs(memory_cache.by_name, 1)[i].k)])))

\* The exact hits followed by the scan's records, each (filer number, ticker)
\* pair once, cut at limit.
ExactThenScan == PySlice(AddNew(TickerHit \o NameHits, TickerScan \o NameScan, 1, Limit), Limit)

\* C15 as stated: when the persistent index raises during search_companies the
\* call still returns, and its result is the exact in-memory hits followed by
\* the substring scan over by_ticker and then by_name, deduplicated and cut at
\* limit.
C15_FallbackScanAlways ==
    IndexRaised => (result.exc = "none" /\ result.ret = ExactThenScan)

\* C15, amended: when the persistent index raises during search_companies the
\* call still returns; in fuzzy mode its result is the exact in-memory hits
\* followed by the substring scan over by_ticker and then by_name, deduplicated
\* and cut at limit; in exact mode nothing is scanned and the result is the
\* exact in-memory hits.
C15_FallbackScanWhenFuzzy ==
    IndexRaised =>
        /\ result.exc = "none"
        /\ Fuzzy => result.ret = ExactThenScan
        /\ ~Fuzzy => result.ret = TickerHit \o NameHits

\* The index raised and the result holds an exact hit, then a record only the
\* ticker scan found, then a record only the name scan found.
C15_Witness ==
    /\ IndexRaised /\ Fuzzy
    /\ TickerHit # <<>>
    /\ Len(result.ret) >= 3
    /\ result.ret[1] = TickerHit[1]
    /\ result.ret[2] \in SeqToSet(TickerScan)
    /\ result.ret[Len(result.ret)] \in SeqToSet(NameScan) \ SeqToSet(TickerScan)

\* The records whose lower-cased name contains the query.
NameMatches ==
    {memory_cache.companies[i].v : i \in {j \in 1..Len(memory_cache.companies) :
        IsSubstring(Lower(Query), Lower(memory_cache.companies[j].v.name))}}

\* C16 as stated: a fuzzy search_companies_by_company_name with the persistent
\* index unavailable returns normally, and returns records whose name contains
\* the query: all of them, or limit of them when there are more.
C16_NameFallbackScan ==
    (/\ result.op = "name_search" /\ Query # <<>> /\ Fuzzy /\ Limit >= 1
     /\ DbUnavailable(World, result.env))
        => /\ result.exc = "none"
           /\ SeqToSet(result.ret) \subseteq NameMatches
           /\ Len(result.ret) = Limit \/ NameMatches \subseteq SeqToSet(result.ret)

-----------------------------------------------------------------------------
(* Single-resolution properties, checked under SpecSingle *)

\* The records of the valid descriptors of the loaded snapshot that carry the
\* filer number n, in the snapshot's order.
CarriedBy(n) ==
    Companies(Select(DbRows(data_file.data),
                     [i \in 1..Len(DbRows(data_file.data)) |-> DbRows(data_file.data)[i].cik = n]))

\* C17: a filer number given as an integer, a digit string or a zero-padded
\* digit string resolves to a success with exactly the records of the valid
\* descriptors carrying it, and to NOT_FOUND when no descriptor carries it.
C17_FilerNumberExactlyN ==
    (/\ result.op = "cik_single" /\ result.exc = "none"
     /\ normalize_cik(result.args[1]) # Invalid)
        => IF CarriedBy(normalize_cik(result.args[1]).v) # <<>>
           THEN /\ result.ret.success
                /\ result.ret.data = CarriedBy(normalize_cik(result.args[1]).v)
           ELSE /\ ~result.ret.success
                /\ result.ret.error_code = "NOT_FOUND"

\* A zero-padded string resolved to the two records of its filer.
C17_Witness ==
    /\ result.op = "cik_single" /\ result.exc = "none"
    /\ result.args[1].t = "str" /\ result.args[1].v[1] = "0"
    /\ result.ret.success
    /\ Len(result.ret.data) = 2
    /\ Len(DbRows(data_file.data)) > 2

\* The ticker a ticker_single call with these arguments looks up.
Asked(args) == Upper(Strip(args[1]))

\* Two responses agree: both successes with the same record, or both failures
\* with the same error code.
SameAnswer(a, b) ==
    /\ a.success = b.success
    /\ a.success => a.data = b.data
    /\ ~a.success => a.error_code = b.error_code

\* C18: a ticker resolution answers with the one record indexed under the
\* trimmed, upper-cased ticker, and with NOT_FOUND when that ticker is not
\* indexed (a ticker that is only part of an indexed one included); a repeated
\* resolution of the same ticker, in any casing and with any surrounding
\* whitespace, gives the same answer and leaves the snapshot as it was.
C18_TickerIdempotentAnyCase ==
    [][(/\ result'.op = "ticker_single" /\ result'.exc = "none"
        /\ Strip(result'.args[1]) # <<>>)
          => /\ UNCHANGED <<memory_cache, last_update>>
             /\ IF DictHas(memory_cache.by_ticker, Asked(result'.args))
                THEN /\ result'.ret.success
                     /\ result'.ret.data.ticker = Asked(result'.args)
                     /\ result'.ret.data \in SeqToSet(DictValSeq(memory_cache.companies))
                ELSE /\ ~result'.ret.success
                     /\ result'.ret.error_code = "NOT_FOUND"
             /\ (/\ result.op = "ticker_single" /\ result.exc = "none"
                 /\ Asked(result.args) = Asked(result'.args))
                   => SameAnswer(result.ret, result'.ret)]_vars

\* A ticker was resolved twice in a row, typed differently, with success.
C18_Witness ==
    /\ result.op = "ticker_single" /\ result.exc = "none"
    /\ pc = Done
    /\ result.ret.success
    /\ result.args[1] # Asked(result.args)

\* The records whose name is the last query up to case, in insertion order.
SameName ==
    Select(DictValSeq(memory_cache.companies),
           [i \in 1..Len(memory_cache.companies) |->
               Lower(memory_cache.companies[i].v.name) = Lower(Query)])

\* C19: a name resolution whose query equals, up to case, the name of at
\* least one record succeeds with the first such record in insertion order,
\* whatever the fuzzy flag.
C19_ExactNameFirstInserted ==
    (/\ result.op = "name_single" /\ result.exc = "none"
     /\ Query # <<>> /\ SameName # <<>>)
        => (result.ret.success /\ result.ret.data = SameName[1])

\* A name typed in another casing resolved to the first of two records that
\* share it.
C19_Witness ==
    /\ result.op = "name_single" /\ result.exc = "none"
    /\ Len(SameName) >= 2
    /\ result.ret.success
    /\ result.ret.data.name # Query
    /\ result.ret.data # SameName[2]

-----------------------------------------------------------------------------
(* Filer-number normalization properties, checked under SpecNormalize *)

\* The decimal numeral of a natural number, without leading zeros ("" for 0).
RECURSIVE DecimalOf(_)
DecimalOf(n) ==
    IF n = 0 THEN <<>> ELSE Append(DecimalOf(n \div 10), DigitChars[(n % 10) + 1])

\* A string of the digits 0 to 9 only, not all of them zero.
DigitsNotAllZero(s) ==
    /\ \A i \in 1..Len(s) : s[i] \in SeqToSet(DigitChars)
    /\ \E i \in 1..Len(s) : s[i] # "0"

\* C22 as stated: normalize_cik returns an integer unchanged; for a string of
\* digits it returns the integer the string denotes once its leading zeros are
\* stripped; for a string that is empty after the stripping or has a character
\* that is not a digit, and for a value that is neither, it returns None. So
\* resolving "0" is INVALID_INPUT while resolving 0 is a lookup.
C22_NormalizeCik ==
    /\ result.op = "normalize_cik" =>
          /\ result.exc = "none"
          /\ IF result.args[1].t = "int" THEN result.ret = result.args[1]
             ELSE IF result.args[1].t = "str" /\ DigitsNotAllZero(result.args[1].v)
             THEN /\ result.ret.t = "int"
                  /\ result.ret.v > 0
                  /\ DecimalOf(result.ret.v) = LStripZeros(result.args[1].v)
             ELSE result.ret = Invalid
    /\ (result.op = "cik_single" /\ result.args[1] = StrV(<<"0">>)) =>
          (result.exc = "none" /\ Verdict(result.ret) = "INVALID_INPUT")
    /\ (result.op = "cik_single" /\ result.args[1] = IntV(0)) =>
          (result.exc = "none" /\ Verdict(result.ret) # "INVALID_INPUT")

-----------------------------------------------------------------------------
(* clear_cache properties, checked under SpecClear *)

LookupOps == ReaderOps \cup {"search", "name_search"}

\* The last answer reports as found every identifier it was asked for that
\* names a record of the index now loaded.
FindsWhatIsLoaded ==
    CASE result.op \in {"ticker_single", "cik_single", "name_single"} ->
            Named(CASE result.op = "ticker_single" -> "tickers_batch"
                    [] result.op = "cik_single" -> "ciks_batch"
                    [] OTHER -> "names_batch", result.args[1]) # {}
                => result.ret.success
      [] result.op \in BatchOps ->
            \A k \in DOMAIN result.ret \cap SeqToSet(result.args[1]) :
                (WellFormed(result.op, k) /\ Named(result.op, k) # {})
                    => result.ret[k].success
      [] result.op = "search" ->
            (Named("tickers_batch", result.args[1]) \cup Named("names_batch", result.args[1]) # {})
                => result.ret # <<>>
      [] OTHER ->
            Named("names_batch", result.args[1]) # {} => result.ret # <<>>

\* C23: clear_cache leaves the record store and the three index maps empty and
\* the timestamp reset; the lookup, batch or search made next either raises or
\* is answered from an index rebuilt from the snapshot fetched during the
\* call, in which it finds every identifier that snapshot's index holds.
C23_ClearThenReload ==
    [][/\ result'.op = "clear_cache" =>
             (memory_cache' = EmptyCache /\ last_update' = 0)
       /\ (/\ result.op = "clear_cache"
           /\ result'.op \in LookupOps
           /\ ReachesLoad(result'.op, result'.args)
           /\ result'.exc = "none")
             => /\ memory_cache' = BuildIndex(result'.env.snap)
                /\ memory_cache' # EmptyCache
                /\ last_update' = now
                /\ FindsWhatIsLoaded']_vars

\* A search made right after a clear found a record of the reloaded snapshot.
C23_Witness ==
    /\ result.op = "search"
    /\ result.exc = "none"
    /\ result.ret # <<>>
    /\ memory_cache = BuildIndex(SnapA)
    /\ result.env.net = "ok"

-----------------------------------------------------------------------------
(* Smart lookup properties, checked under SpecSmart *)

\* The identifier of the last smart lookup, and it trimmed when it is a string.
Identifier == result.args[1]
Trimmed == Strip(Identifier.v)

\* The trimmed string is made of digits only.
AllDigits(s) == s # <<>> /\ \A i \in 1..Len(s) : s[i] \in SeqToSet(DigitChars) \cup {SuperscriptTwo}

\* The records the filer-number lookup gives for the trimmed digit string.
ByFilerNumber ==
    IF normalize_cik(StrV(Trimmed)).t = "int"
    THEN CarriedBy(normalize_cik(StrV(Trimmed)).v) ELSE <<>>

\* C24 as stated: the smart lookup returns [] for None, for a blank string and
\* for a value that is neither an integer nor a string; for an integer the
\* records of that filer number, empty or not; for a string the first
\* non-empty of the filer-number lookup (when the trimmed string is all
\* digits), the exact ticker lookup and the fuzzy name lookup, the last two
\* giving exactly one record.
C24_SmartLookupOrder ==
    result.op = "smart" =>
        /\ result.exc = "none"
        /\ CASE Identifier.t = "int" -> result.ret = CarriedBy(Identifier.v)
             [] Identifier.t # "str" -> result.ret = <<>>
             [] Identifier.t = "str" /\ Trimmed = <<>> -> result.ret = <<>>
             [] OTHER ->
                  IF AllDigits(Trimmed) /\ ByFilerNumber # <<>>
                  THEN result.ret = ByFilerNumber
                  ELSE IF Named("tickers_batch", Trimmed) # {}
                  THEN Len(result.ret) = 1 /\ result.ret[1] \in Named("tickers_batch", Trimmed)
                  ELSE IF get_company_by_name_single(World, result.env, Trimmed, TRUE).ret.success
                  THEN result.ret =
                          <<get_company_by_name_single(World, result.env, Trimmed, TRUE).ret.data>>
                  ELSE result.ret = <<>>

-----------------------------------------------------------------------------
(* ensure_data_loaded properties, checked under SpecEnsure *)

\* READY: a snapshot is loaded and is within the expiry horizon.
Ready == last_update # 0 /\ ~is_cache_expired(last_update, now)

\* The cache file exists and is within the expiry horizon.
FileCacheValid ==
    data_file.exists /\ (now - data_file.mtime) * HoursPerTick <= CACHE_EXPIRY_HOURS

-----------------------------------------------------------------------------
(* Refresh serialization, checked under SpecRefresh *)

\* The callers inside update_data_impl.
Refreshing == {t \in Callers : pc[t].at \in {"update_data", "loading"}}

\* C26 as stated: at most one refresh is in flight at any time.
C26_OneRefreshInFlight == Cardinality(Refreshing) <= 1

-----------------------------------------------------------------------------
(* Entity Index properties, checked under SpecIndex *)

\* The keys of the record store, and the ids an index map leads to.
StoreKeys == DictKeys(memory_cache.companies)
IdsOf(lists) == UNION {SeqToSet(lists[i].v) : i \in 1..Len(lists)}

\* C27: in every state (after the first load, after a refresh, after a clear)
\* every id of by_ticker, by_cik and by_name is a key of the record store, no
\* two tickers of by_ticker lead to the same id, and the ids by_cik leads to,
\* and those by_name leads to, are exactly the keys of the record store.
C27_IndexWellFormed ==
    /\ \A i \in 1..Len(memory_cache.by_ticker) : memory_cache.by_ticker[i].v \in StoreKeys
    /\ \A i, j \in 1..Len(memory_cache.by_ticker) :
          memory_cache.by_ticker[i].v = memory_cache.by_ticker[j].v => i = j
    /\ IdsOf(memory_cache.by_cik) = StoreKeys
    /\ IdsOf(memory_cache.by_name) = StoreKeys

\* A refresh built an index of two records of one filer under one name.
C27_Witness ==
    /\ result.op = "update_data"
    /\ Len(memory_cache.companies) = 2
    /\ Len(memory_cache.by_ticker) = 2
    /\ Len(memory_cache.by_cik) = 1
    /\ Len(memory_cache.by_name) = 1

\* A descriptor is valid: its filer number normalizes to a non-negative
\* integer, and its ticker and its name have a character that is not a blank.
ValidDesc(d) ==
    /\ normalize_cik(d.cik_str).t = "int"
    /\ normalize_cik(d.cik_str).v >= 0
    /\ Strip(d.ticker) # <<>>
    /\ Strip(d.title) # <<>>

\* The records of the valid descriptors of a snapshot, in its order.
ValidRecords(snap) ==
    LET valid == Select(snap, [i \in 1..Len(snap) |-> ValidDesc(snap[i])])
    IN [i \in 1..Len(valid) |-> [cik |-> normalize_cik(valid[i].cik_str).v,
                                 ticker |-> Upper(valid[i].ticker),
                                 name |-> valid[i].title]]

\* C28 as stated: a refresh indexes exactly the valid descriptors of the
\* snapshot it fetched, in memory and, when its rebuild succeeds, in the
\* persistent index; every other descriptor is dropped.
C28_IndexedIffValid ==
    (result.op = "update_data" /\ result.exc = "none") =>
        /\ DictValSeq(memory_cache.companies) = ValidRecords(result.env.snap)
        /\ result.ret => Companies(db.rows) = ValidRecords(result.env.snap)

-----------------------------------------------------------------------------
(* When a search consults the persistent index, checked under SpecSearch *)

\* The last call was a search with a non-blank query that returned.
Searched ==
    /\ result.op \in SearchOps
    /\ result.exc = "none"
    /\ Strip(result.args[1]) # <<>>

\* The calls the last search sent to the persistent index. The cache was
\* current, so the search left the process as it found it.
SearchDbCalls ==
    IF result.op = "search"
    THEN search_db_calls(World, result.env, result.args[1], result.args[2], result.args[3])
    ELSE name_search_db_calls(World, result.env, result.args[1], result.args[2],
                              result.args[3])

\* The results of the exact in-memory tiers for the last search: the record
\* indexed under the query as a ticker (search_companies only), then the
\* records indexed under the query as a name.
ExactTierHits ==
    CompaniesOf(memory_cache,
                exact_ids(memory_cache, Strip(result.args[1]), result.op = "search"))

\* C30 as stated: a search consults the persistent index exactly when the
\* exact in-memory tiers gave fewer than limit results or fuzzy is requested.
C30_IndexConsultedWhenShortOrFuzzy ==
    Searched =>
        (SearchDbCalls # <<>>)
            <=> (Len(ExactTierHits) < result.args[2] \/ result.args[3])

-----------------------------------------------------------------------------
(* Ticker collisions during the build, checked under SpecIndex *)

\* The snapshot the last refresh fetched.
Fetched == result.env.snap

\* The record of a descriptor.
RecordOf(d) == [cik |-> normalize_cik(d.cik_str).v, ticker |-> Upper(d.ticker), name |-> d.title]

\* The ids of the record store that hold the record of the j-th descriptor of
\* the fetched snapshot.
StoredAs(j) == {id \in StoreKeys : DictGet(memory_cache.companies, id, None) = RecordOf(Fetched[j])}

\* The record of the j-th descriptor is in the record store and reachable
\* through by_cik and by_name.
Reachable(j) ==
    \E id \in StoredAs(j) :
        /\ id \in SeqToSet(DictGet(memory_cache.by_cik, RecordOf(Fetched[j]).cik, <<>>))
        /\ id \in SeqToSet(DictGet(memory_cache.by_name, Lower(RecordOf(Fetched[j]).name), <<>>))

\* Descriptors i < j of the fetched snapshot are valid and collide on their
\* upper-cased ticker, and j is the last valid descriptor with that ticker.
CollideLast(i, j) ==
    /\ i < j
    /\ ValidDesc(Fetched[i]) /\ ValidDesc(Fetched[j])
    /\ Upper(Fetched[i].ticker) = Upper(Fetched[j].ticker)
    /\ \A k \in (j + 1)..Len(Fetched) :
          ~(ValidDesc(Fetched[k]) /\ Upper(Fetched[k].ticker) = Upper(Fetched[j].ticker))

\* The last call was a refresh that returned.
Rebuilt == result.op = "update_data" /\ result.exc = "none"

\* C33 as stated: after a build from a snapshot in which two valid descriptors
\* have the same upper-cased ticker, by_ticker maps that ticker to the record
\* of the one iterated last, and both records are in the record store and
\* reachable through by_cik and by_name.
C33_TickerCollisionLastWins ==
    Rebuilt =>
        \A i, j \in 1..Len(Fetched) :
            CollideLast(i, j) =>
                /\ DictGet(memory_cache.by_ticker, Upper(Fetched[j].ticker), None) \in StoredAs(j)
                /\ Reachable(i)
                /\ Reachable(j)

-----------------------------------------------------------------------------
(* Memory index against persistent index, checked under SpecEnsure *)

\* The (filer number, ticker, name) triples of the in-memory index and of the
\* persistent index (none while the database file does not exist).
MemoryTriples ==
    {<<memory_cache.companies[i].v.cik, memory_cache.companies[i].v.ticker,
       memory_cache.companies[i].v.name>> : i \in 1..Len(memory_cache.companies)}
DbTriples ==
    IF db.exists
    THEN {<<db.rows[i].cik, db.rows[i].ticker, db.rows[i].title>> : i \in 1..Len(db.rows)}
    ELSE {}

\* The last call was ensure_data_loaded returning normally, or update_data
\* returning True.
LoadSucceeded ==
    \/ result.op = "ensure" /\ result.exc = "none"
    \/ result.op = "update_data" /\ result.exc = "none" /\ result.ret = TRUE

\* C34 as stated: whenever ensure_data_loaded or update_data returns
\* successfully, the in-memory index and the persistent index hold the same
\* set of (filer number, ticker, name) triples.
C34_MemoryAndDbSameSnapshot == LoadSucceeded => MemoryTriples = DbTriples

-----------------------------------------------------------------------------
(* Index self-consistency, checked under SpecIndex *)

\* The record stored under an id.
Stored(id) == DictGet(memory_cache.companies, id, None)

\* The places <<i, j>> where an id stands in the lists of an index map.
PlacesOf(lists, id) ==
    {p \in UNION {{<<i, j>> : j \in 1..Len(lists[i].v)} : i \in 1..Len(lists)} :
        lists[p[1]].v[p[2]] = id}

\* Every list of an index map is in id order.
InIdOrder(lists) ==
    \A i \in 1..Len(lists) :
        \A a, b \in 1..Len(lists[i].v) : a < b => lists[i].v[a] < lists[i].v[b]

\* C35: in every state the record under by_ticker[t] has ticker t, every
\* record listed under by_cik[n] has filer number n, every record listed under
\* by_name[k] has a name whose lower-casing is k, every record id stands at
\* exactly one place of the by_cik lists and at exactly one place of the
\* by_name lists, and every list is in id (insertion) order.
C35_IndexSelfConsistent ==
    /\ \A i \in 1..Len(memory_cache.by_ticker) :
          /\ memory_cache.by_ticker[i].v \in StoreKeys
          /\ Stored(memory_cache.by_ticker[i].v).ticker = memory_cache.by_ticker[i].k
    /\ \A i \in 1..Len(memory_cache.by_cik) :
          \A j \in 1..Len(memory_cache.by_cik[i].v) :
              /\ memory_cache.by_cik[i].v[j] \in StoreKeys
              /\ Stored(memory_cache.by_cik[i].v[j]).cik = memory_cache.by_cik[i].k
    /\ \A i \in 1..Len(memory_cache.by_name) :
          \A j \in 1..Len(memory_cache.by_name[i].v) :
              /\ memory_cache.by_name[i].v[j] \in StoreKeys
              /\ Lower(Stored(memory_cache.by_name[i].v[j]).name) = memory_cache.by_name[i].k
    /\ \A id \in StoreKeys :
          /\ Cardinality(PlacesOf(memory_cache.by_cik, id)) = 1
          /\ Cardinality(PlacesOf(memory_cache.by_name, id)) = 1
    /\ InIdOrder(memory_cache.by_cik)
    /\ InIdOrder(memory_cache.by_name)

\* A refresh built an index of two records of different filers whose names
\* differ only in case.
C35_Witness ==
    /\ Rebuilt
    /\ Len(memory_cache.companies) = 2
    /\ Len(memory_cache.by_cik) = 2
    /\ Len(memory_cache.by_name) = 1
    /\ memory_cache.companies[1].v.name # memory_cache.companies[2].v.name

-----------------------------------------------------------------------------
(* Round trip through the index, checked under SpecRound *)

\* The last call was a single resolution that returned.
Resolved(op) == result.op = op /\ result.exc = "none"

\* No two records of the loaded index have the same ticker.
TickersUnique == Len(memory_cache.by_ticker) = Len(memory_cache.companies)

\* C36 as stated: for every record r of the loaded index, resolving r's filer
\* number returns a list that contains r, resolving r's name in exact mode
\* succeeds with a record of that name, and, when tickers are unique,
\* resolving r's ticker returns r.
C36_RoundTrip ==
    \A r \in Records :
        /\ (Resolved("cik_single") /\ result.args[1] = IntV(r.cik))
              => (result.ret.success /\ r \in SeqToSet(result.ret.data))
        /\ (Resolved("name_single") /\ result.args[1] = r.name /\ ~result.args[2])
              => (result.ret.success /\ result.ret.data.name = r.name)
        /\ (Resolved("ticker_single") /\ result.args[1] = r.ticker /\ TickersUnique)
              => (result.ret.success /\ result.ret.data = r)

-----------------------------------------------------------------------------
(* Postcondition of ensure_data_loaded, checked under SpecEnsure *)

\* The last call was ensure_data_loaded and it returned normally.
EnsureReturned == result.op = "ensure" /\ result.exc = "none"

\* C37: whenever ensure_data_loaded returns normally the cache is READY: a
\* load timestamp is recorded and is not stale at the return, and the index
\* is the one built from a whole snapshot the endpoint served; it is neither
\* EMPTY (no load recorded) nor STALE.
C37_EnsureLeavesReady ==
    EnsureReturned =>
        /\ last_update # 0
        /\ ~is_cache_expired(last_update, now)
        /\ (now - last_update) * HoursPerTick <= CACHE_EXPIRY_HOURS
        /\ \E snap \in Served : memory_cache = BuildIndex(snap)

\* After a restart, with no email configured, ensure_data_loaded returned
\* with the index rebuilt from a cache file written earlier.
C37_Witness ==
    /\ EnsureReturned
    /\ ~user_email
    /\ last_update # 0 /\ last_update < now
    /\ memory_cache.companies # <<>>

-----------------------------------------------------------------------------
(* The secmap package: lookups memoized by functools.lru_cache, SpecSecmap *)
(* The process state is that of secmap.secmap (_memory_cache, _last_update *)
(* and the two memo tables) with the cache directory. secmap/utils is not  *)
(* part of the sources; its functions download_sec_data, load_from_cache,  *)
(* is_cache_expired, normalize_cik and clear_cache_files are taken to      *)
(* behave as those of the same names in sec_company_lookup/utils.          *)

\* secmap._load_data_to_memory: the loop is that of sec_company_lookup (a
\* record's third key is "title" there, the field name here); the index and
\* the timestamp are replaced together.
secmap_load_data_to_memory(w, data) == load_data_to_memory(w, data)

\* secmap.update_data, lines 126-132, given load_data_to_db's outcome l: the
\* memo tables are cleared only when load_data_to_db has returned.
secmap_update_after_db(l) ==
    IF l.exc # "none" THEN [w |-> l.w, ret |-> FALSE, cleared |-> FALSE]
    ELSE [w |-> l.w, ret |-> TRUE, cleared |-> TRUE]

\* secmap.update_data, lines 124-135, given download_sec_data's outcome d.
secmap_update_after_download(d, env) ==
    IF d.exc # "none" THEN [w |-> d.w, ret |-> FALSE, cleared |-> FALSE]
    ELSE secmap_update_after_db(
             load_data_to_db(secmap_load_data_to_memory(d.w, d.data), d.data, env))

\* secmap.update_data: [w, ret, cleared]. Any exception gives False.
secmap_update_data(w, env) == secmap_update_after_download(download_sec_data(w, env), env)

\* _ensure_data_loaded, lines 109-113, given update_data's outcome u.
secmap_ensure_after_update(u) ==
    [w |-> u.w, exc |-> IF u.ret THEN "none" ELSE "RuntimeError", cleared |-> u.cleared]

\* _ensure_data_loaded, lines 104-113, given load_from_cache's outcome c: the
\* reload from the file cache replaces the index without touching the memo
\* tables.
secmap_ensure_after_cache(w, env, c) ==
    IF c.exists /\ c.data # <<>>
    THEN [w |-> [secmap_load_data_to_memory(w, c.data) EXCEPT !.lu = c.mtime],
          exc |-> "none", cleared |-> FALSE]
    ELSE secmap_ensure_after_update(secmap_update_data(w, env))

\* secmap._ensure_data_loaded: [w, exc, cleared].
secmap_ensure_data_loaded(w, env) ==
    IF w.mc = EmptyCache \/ is_cache_expired(w.lu, w.now)
    THEN secmap_ensure_after_cache(w, env, load_from_cache(w))
    ELSE [w |-> w, exc |-> "none", cleared |-> FALSE]

\* The by_ticker read of get_company_by_ticker. The Optional[Dict] it returns
\* is written <<record>>, and <<>> for None.
ticker_record(mc, ticker) ==
    LET company_id == DictGet(mc.by_ticker, Upper(Strip(ticker)), None)
    IN IF company_id # None THEN <<DictGet(mc.companies, company_id, None)>> ELSE <<>>

\* The by_cik read of get_company_by_cik: the list of records.
cik_records(mc, cik) ==
    LET cik_int == normalize_cik(cik)
    IN IF cik_int = Invalid THEN <<>>
       ELSE CompaniesOf(mc, DictGet(mc.by_cik, cik_int.v, <<>>))

\* get_company_by_ticker, lines 153-156, after _ensure_data_loaded's outcome e.
ticker_after_ensure(e, ticker) ==
    IF e.exc # "none"
    THEN [w |-> e.w, exc |-> e.exc, ret |-> NoRet, cleared |-> e.cleared, ensured |-> TRUE]
    ELSE [w |-> e.w, exc |-> "none", ret |-> ticker_record(e.w.mc, ticker),
          cleared |-> e.cleared, ensured |-> TRUE]

\* The body of secmap.get_company_by_ticker: [w, exc, ret, cleared, ensured].
get_company_by_ticker(w, env, ticker) ==
    IF Strip(ticker) = <<>>
    THEN [w |-> w, exc |-> "none", ret |-> <<>>, cleared |-> FALSE, ensured |-> FALSE]
    ELSE ticker_after_ensure(secmap_ensure_data_loaded(w, env), ticker)

\* get_company_by_cik, lines 173-179, after _ensure_data_loaded's outcome e.
cik_after_ensure(e, cik) ==
    IF e.exc # "none"
    THEN [w |-> e.w, exc |-> e.exc, ret |-> NoRet, cleared |-> e.cleared, ensured |-> TRUE]
    ELSE [w |-> e.w, exc |-> "none", ret |-> cik_records(e.w.mc, cik),
          cleared |-> e.cleared, ensured |-> TRUE]

\* The body of secmap.get_company_by_cik: [w, exc, ret, cleared, ensured].
get_company_by_cik(w, env, cik) == cik_after_ensure(secmap_ensure_data_loaded(w, env), cik)

\* functools.lru_cache around a function: a memoized argument is answered from
\* the table and the body does not run; otherwise the body runs and a value it
\* returns is stored, in the table as the body left it (cache_clear may have
\* run inside). maxsize = 1000 is never reached by the arguments explored.
MemoHas(table, key) == \E m \in table : m[1] = key
MemoGet(table, key) == (CHOOSE m \in table : m[1] = key)[2]
lru_call(table, key, r) ==
    IF MemoHas(table, key)
    THEN [hit |-> TRUE, table |-> table, exc |-> "none", ret |-> MemoGet(table, key)]
    ELSE [hit |-> FALSE, exc |-> r.exc, ret |-> r.ret,
          table |-> (IF r.cleared THEN {} ELSE table)
                    \cup (IF r.exc = "none" THEN {<<key, r.ret>>} ELSE {})]

\* What the collaborators do during a call: the endpoint serves one of the
\* snapshots (the database rejects SnapC by its UNIQUE constraint), or the
\* download fails.
SecmapEnvs ==
    {[net |-> "ok", snap |-> snap, db_fails |-> FALSE] : snap \in Served}
    \cup {[net |-> "fail", snap |-> SnapA, db_fails |-> FALSE]}

\* The arguments the callers pass.
MemoTickers == {sGOOG, <<" ">>}
MemoCiks == {IntV(5), StrV(<<"x">>)}

\* What the caller of a memoized lookup sees, with whether the index was due
\* for a reload when the call was made and whether _ensure_data_loaded ran.
MemoReturned(op, key, c, ensured) ==
    result' = [op |-> op, args |-> <<key>>, exc |-> c.exc, ret |-> c.ret,
               hit |-> c.hit, ensured |-> ensured,
               due |-> (memory_cache = EmptyCache \/ is_cache_expired(last_update, now))]

\* What a secmap call with outcome r leaves behind in the process and on disk.
SecmapInstall(r) ==
    /\ memory_cache' = r.w.mc
    /\ last_update' = r.w.lu
    /\ data_file' = r.w.file
    /\ db' = r.w.db
    /\ UNCHANGED <<user_email, now, pc>>

\* A memoized call with outcome c of the wrapper, r being what the body does
\* when it runs. A cache_clear inside the body empties both tables.
MemoCall(op, key, r, c) ==
    /\ IF c.hit THEN /\ SecmapInstall([w |-> World])
                     /\ lru_cache' = lru_cache
       ELSE /\ SecmapInstall(r)
            /\ lru_cache' = IF op = "get_company_by_ticker"
                            THEN [by_ticker |-> c.table,
                                  by_cik |-> IF r.cleared THEN {} ELSE lru_cache.by_cik]
                            ELSE [by_cik |-> c.table,
                                  by_ticker |-> IF r.cleared THEN {}
                                                ELSE lru_cache.by_ticker]
    /\ MemoReturned(op, key, c, ~c.hit /\ r.ensured)

\* A call of the memoized get_company_by_ticker.
SecmapTickerCall ==
    /\ pc = Idle
    /\ \E env \in SecmapEnvs, ticker \in MemoTickers :
          MemoCall("get_company_by_ticker", ticker,
                   get_company_by_ticker(World, env, ticker),
                   lru_call(lru_cache.by_ticker, ticker,
                            get_company_by_ticker(World, env, ticker)))

\* A call of the memoized get_company_by_cik.
SecmapCikCall ==
    /\ pc = Idle
    /\ \E env \in SecmapEnvs, cik \in MemoCiks :
          MemoCall("get_company_by_cik", cik,
                   get_company_by_cik(World, env, cik),
                   lru_call(lru_cache.by_cik, cik, get_company_by_cik(World, env, cik)))

\* The memo tables after a call with outcome r that is not memoized.
SecmapTables(r) == lru_cache' = IF r.cleared THEN NoMemo ELSE lru_cache

\* secmap.update_data called by the user.
SecmapUpdateData ==
    \E env \in SecmapEnvs :
        /\ SecmapInstall(secmap_update_data(World, env))
        /\ SecmapTables(secmap_update_data(World, env))
        /\ result' = [op |-> "update_data", args |-> <<>>, exc |-> "none",
                      ret |-> secmap_update_data(World, env).ret]

\* A call of one of the functions that are not memoized (get_company_by_name,
\* get_cache_info, ...): _ensure_data_loaded runs.
SecmapEnsure ==
    \E env \in SecmapEnvs :
        /\ SecmapInstall(secmap_ensure_data_loaded(World, env))
        /\ SecmapTables(secmap_ensure_data_loaded(World, env))
        /\ result' = [op |-> "ensure", args |-> <<>>, ret |-> None,
                      exc |-> secmap_ensure_data_loaded(World, env).exc]

\* secmap.clear_cache, with clear_cache_files.
SecmapClearCache ==
    /\ memory_cache' = EmptyCache
    /\ last_update' = 0
    /\ lru_cache' = NoMemo
    /\ data_file' = NoFile
    /\ db' = NoDb
    /\ result' = [op |-> "clear_cache"]
    /\ UNCHANGED <<user_email, now, pc>>

\* Another process using secmap on the same cache directory runs update_data:
\* the file cache and the database change under this process.
SecmapElsewhere ==
    \E env \in SecmapEnvs :
        /\ data_file' = secmap_update_data(World, env).w.file
        /\ db' = secmap_update_data(World, env).w.db
        /\ result' = [op |-> "elsewhere"]
        /\ UNCHANGED <<memory_cache, last_update, lru_cache, user_email, now, pc>>

\* A process that has imported secmap, on a machine where downloads are set up.
InitSecmap ==
    /\ memory_cache = Fresh.mc
    /\ last_update = Fresh.lu
    /\ data_file = Fresh.file
    /\ db = Fresh.db
    /\ user_email = TRUE
    /\ now = Fresh.now
    /\ result = [op |-> "import"]
    /\ pc = Idle
    /\ lru_cache = NoMemo

NextSecmap ==
    \/ Tick
    \/ SecmapTickerCall
    \/ SecmapCikCall
    \/ SecmapUpdateData
    \/ SecmapEnsure
    \/ SecmapClearCache
    \/ SecmapElsewhere

SpecSecmap == InitSecmap /\ [][NextSecmap]_vars

-----------------------------------------------------------------------------
(* Memoized lookups against the loaded snapshot, checked under SpecSecmap *)

MemoOps == {"get_company_by_ticker", "get_company_by_cik"}

\* A memoized lookup has just returned a value to its caller.
MemoAnswered == result.op \in MemoOps /\ result.exc = "none"

\* What the lookup gives on the snapshot loaded now.
FromLoaded ==
    IF result.op = "get_company_by_ticker"
    THEN ticker_record(memory_cache, result.args[1])
    ELSE cik_records(memory_cache, result.args[1])

\* The call is one whose body reaches _ensure_data_loaded.
ReachesEnsure ==
    result.op = "get_company_by_cik" \/ Strip(result.args[1]) # <<>>

\* C38: a value returned by the memoized get_company_by_ticker or
\* get_company_by_cik is the one the snapshot loaded at that moment gives for
\* the argument, never one memoized from an earlier snapshot, and a call made
\* while the index was due for a reload has gone through _ensure_data_loaded.
C38_MemoFollowsSnapshot ==
    MemoAnswered =>
        /\ result.ret = FromLoaded
        /\ (result.due /\ ReachesEnsure) => result.ensured

====
